---------------------------- MODULE Spec2Model ----------------------------
(***************************************************************************)
(* A model of the chunked world of gaymwtf-core: World (the chunk map, the *)
(* visible window, the per-frame update with its migration, collision and  *)
(* tick phases), Chunk (visibility, active actors, visible tiles) and the  *)
(* Object trait's default hooks.                                           *)
(*                                                                         *)
(* Representation.  A Vec2 is a pair <<x, y>> of integers: every f32 the   *)
(* model uses is a small integer, which f32 represents exactly.  A chunk   *)
(* position component is a record [w, h] standing for w + h/2 (h in 0..1), *)
(* so that a fractional chunk position can be constructed.  Timers of the  *)
(* example Mob are counted in eighths of a second (0.125 s is exact in     *)
(* f32, and 0.125 s * 1000.0 = 125).  Sequences are 1-based; the indices   *)
(* the code stores (obj_index, active_objects, visible_tiles) keep the     *)
(* code's 0-based values.                                                  *)
(***************************************************************************)
EXTENDS Integers, Sequences, FiniteSets, TLC

(***************************************************************************)
(* Program constants                                                       *)
(***************************************************************************)
TILE_SIZE == 16
CHUNK_SIZE == 16
CHUNK_PIXELS == TILE_SIZE * CHUNK_SIZE
OBJECT_ACTIVATION_MARGIN == 100
render_dist == 2
buffer == 1

(***************************************************************************)
(* Bounds of the model                                                     *)
(***************************************************************************)
MaxUpdates == 2

(***************************************************************************)
(* Vec2 arithmetic (macroquad::math::Vec2)                                 *)
(***************************************************************************)
VAdd(a, b) == <<a[1] + b[1], a[2] + b[2]>>
VSub(a, b) == <<a[1] - b[1], a[2] - b[2]>>
Dot(a, b) == a[1] * b[1] + a[2] * b[2]
Min(a, b) == IF a < b THEN a ELSE b
Max(a, b) == IF a > b THEN a ELSE b
\* f32::floor and f32::ceil of a quotient of integers by a positive integer
FloorDiv(a, b) == a \div b
CeilDiv(a, b) == -((-a) \div b)
\* Rust's integer remainder: the sign follows the dividend
RustRem(a, b) == IF a >= 0 THEN a % b ELSE -((-a) % b)

(***************************************************************************)
(* Chunk positions (a component is w + h/2)                                *)
(***************************************************************************)
Whole(n) == [w |-> n, h |-> 0]
\* `x as i32`: truncation toward zero
AsI32(c) == IF c.w < 0 /\ c.h = 1 THEN c.w + 1 ELSE c.w
\* c * CHUNK_PIXELS
TimesChunkPixels(c) == c.w * CHUNK_PIXELS + c.h * (CHUNK_PIXELS \div 2)

VARIABLES
    chunks,            \* World.chunks: chunk key -> Chunk
    visible_chunks,    \* World.visible_chunks
    pc,                \* the statement World::update has reached ("idle": not running)
    camera_pos,        \* arguments of the running update
    screen_size,
    dt,                \* get_frame_time() of this frame, in eighths of a second
    movements,         \* the pending moves of the running update
    vi,                \* position of the tick loop in visible_chunks_copy (1-based)
    taken,             \* the chunk removed from the map while Chunk::update runs
    updates,           \* number of World::update calls made
    hist,              \* history of the last operation (observation only)
    object_registry,   \* ObjectRegistry.prototypes: type tag -> prototype
    tile_registry,     \* TileRegistry.prototypes: type tag -> prototype
    subject,           \* the tile or actor being saved
    record,            \* the String serialize() returned for it
    restored,          \* the Result deserialize returned for that String
    save_dir,          \* the directory save_world writes and load_world reads
    result,            \* the Result the last save_world or load_world returned,
                       \* with the directory as that call found it
    io_failures,       \* the filesystem calls that failed during that call
    heap,              \* the boxes clone_box has allocated
    instances,         \* the boxes the caller of create_by_id holds
    created,           \* the Option the last create_by_id returned, and the state
                       \* of the instance as it was returned
    registered,        \* the prototypes handed to register, in call order
    biome_registry,    \* BiomeRegistry.prototypes: the biomes in registration order
    found,             \* the Option the last find_biome returned, and its arguments
    colliding,         \* the receiver and the argument of a collision callback
    collided           \* the two after the callback has returned

worldVars == <<chunks, visible_chunks, pc, camera_pos, screen_size, dt, movements,
               vi, taken, updates, hist>>
storeVars == <<save_dir, result, io_failures>>
registryVars == <<heap, instances, created, registered>>
biomeVars == <<biome_registry, found>>
handlerVars == <<colliding, collided>>
recordVars == <<object_registry, tile_registry, subject, record, restored,
                save_dir, result, io_failures, heap, instances, created, registered,
                biome_registry, found, colliding, collided>>
vars == <<chunks, visible_chunks, pc, camera_pos, screen_size, dt, movements,
          vi, taken, updates, hist,
          object_registry, tile_registry, subject, record, restored,
          save_dir, result, io_failures, heap, instances, created, registered,
          biome_registry, found, colliding, collided>>


(***************************************************************************)
(* Object trait: accessors and default hooks                               *)
(***************************************************************************)
\* An actor is [id, tag, pos, vel, size, move_timer, direction_change_timer].
\* Mob (the example actor) reports a fixed size; any other actor its field.
get_size(o) == IF o.tag = "mob" THEN <<TILE_SIZE, TILE_SIZE>> ELSE o.size
set_velocity(o, v) == [o EXCEPT !.vel = v]

\* a variant of the default handler that compares the boxes at full size
collision_unshrunk(self, other) ==
    LET self_size == get_size(self)
        other_size == get_size(other)
        self_min == self.pos
        self_max == VAdd(self.pos, self_size)
        other_min == other.pos
        other_max == VAdd(other.pos, other_size)
        x_overlap == Min(self_max[1] - other_min[1], other_max[1] - self_min[1])
        y_overlap == Min(self_max[2] - other_min[2], other_max[2] - self_min[2])
    IN  IF /\ self_min[1] < other_max[1]
           /\ self_max[1] > other_min[1]
           /\ self_min[2] < other_max[2]
           /\ self_max[2] > other_min[2]
        THEN IF x_overlap < y_overlap
             THEN set_velocity(self, <<0, self.vel[2]>>)
             ELSE IF x_overlap > y_overlap
                  THEN set_velocity(self, <<self.vel[1], 0>>)
                  ELSE set_velocity(self, <<0, 0>>)
        ELSE self

\* Object::collision, the default handler: the new state of `self`
collision(self, other) ==
    LET self_size == get_size(self)
        other_size == get_size(other)
        self_min == VAdd(self.pos, <<buffer, buffer>>)
        self_max == VSub(VAdd(self.pos, self_size), <<buffer, buffer>>)
        other_min == VAdd(other.pos, <<buffer, buffer>>)
        other_max == VSub(VAdd(other.pos, other_size), <<buffer, buffer>>)
        x_overlap == Min(self_max[1] - other_min[1], other_max[1] - self_min[1])
        y_overlap == Min(self_max[2] - other_min[2], other_max[2] - self_min[2])
    IN  IF /\ self_min[1] < other_max[1]
           /\ self_max[1] > other_min[1]
           /\ self_min[2] < other_max[2]
           /\ self_max[2] > other_min[2]
        THEN IF x_overlap < y_overlap
             THEN set_velocity(self, <<0, self.vel[2]>>)
             ELSE IF x_overlap > y_overlap
                  THEN set_velocity(self, <<self.vel[1], 0>>)
                  ELSE set_velocity(self, <<0, 0>>)
        ELSE self

\* Mob::tick of the example: the timers advance by dt; when a second has
\* passed the velocity is re-chosen from the position's parity; the position
\* advances by the velocity.
MobTick(o, d) ==
    LET mt == o.move_timer + d
        dct == o.direction_change_timer + d
        x == o.pos[1]
        y == o.pos[2]
        axis == RustRem(x + y + mt * 125, 2)
        direction == IF RustRem(x + y, 2) = 0 THEN 1 ELSE -1
        expired == dct >= 8
        v == IF expired
             THEN (IF axis = 0 THEN <<direction, 0>> ELSE <<0, direction>>)
             ELSE o.vel
    IN  [o EXCEPT !.move_timer = mt,
                  !.direction_change_timer = IF expired THEN 0 ELSE dct,
                  !.vel = v,
                  !.pos = VAdd(o.pos, v)]

\* obj.tick(dt, world): Mob overrides it, the trait's default does nothing
tick(o, d) == IF o.tag = "mob" THEN MobTick(o, d) ELSE o

(***************************************************************************)
(* Chunk                                                                   *)
(***************************************************************************)
\* Chunk::new
NewChunk(pos) ==
    LET min == <<TimesChunkPixels(pos[1]), TimesChunkPixels(pos[2])>>
    IN  [pos |-> pos,
         bounds |-> <<min, VAdd(min, <<CHUNK_PIXELS, CHUNK_PIXELS>>)>>,
         tiles |-> <<>>,
         objects |-> <<>>,
         visible_tiles |-> <<>>,
         active_objects |-> <<>>]

\* screen_size / 2.0 (the viewports of the model have even sides)
HalfSize(screen) == <<screen[1] \div 2, screen[2] \div 2>>

\* a variant of is_visible for which boxes that only touch do not intersect
is_visible_strict(chunk, camera, screen) ==
    LET screen_min == VSub(camera, HalfSize(screen))
        screen_max == VAdd(camera, HalfSize(screen))
    IN  ~(\/ chunk.bounds[2][1] <= screen_min[1]
          \/ chunk.bounds[1][1] >= screen_max[1]
          \/ chunk.bounds[2][2] <= screen_min[2]
          \/ chunk.bounds[1][2] >= screen_max[2])

\* Chunk::is_visible
is_visible(chunk, camera, screen) ==
    LET screen_min == VSub(camera, HalfSize(screen))
        screen_max == VAdd(camera, HalfSize(screen))
    IN  ~(\/ chunk.bounds[2][1] < screen_min[1]
          \/ chunk.bounds[1][1] > screen_max[1]
          \/ chunk.bounds[2][2] < screen_min[2]
          \/ chunk.bounds[1][2] > screen_max[2])

\* the indices 0..n-1, ascending: what iter().enumerate() goes through
Indices(n) == [k \in 1..n |-> k - 1]

\* a variant of update_active_objects with open bounds
update_active_objects_open(chunk, camera, screen) ==
    LET m == <<OBJECT_ACTIVATION_MARGIN, OBJECT_ACTIVATION_MARGIN>>
        screen_min == VSub(VSub(camera, HalfSize(screen)), m)
        screen_max == VAdd(VAdd(camera, HalfSize(screen)), m)
        Inside(k) ==
            LET pos == chunk.objects[k + 1].pos
            IN  /\ pos[1] > screen_min[1] /\ pos[1] < screen_max[1]
                /\ pos[2] > screen_min[2] /\ pos[2] < screen_max[2]
    IN  SelectSeq(Indices(Len(chunk.objects)), Inside)

\* Chunk::update_active_objects: the new active_objects
update_active_objects(chunk, camera, screen) ==
    LET m == <<OBJECT_ACTIVATION_MARGIN, OBJECT_ACTIVATION_MARGIN>>
        screen_min == VSub(VSub(camera, HalfSize(screen)), m)
        screen_max == VAdd(VAdd(camera, HalfSize(screen)), m)
        Inside(k) ==
            LET pos == chunk.objects[k + 1].pos
            IN  /\ pos[1] >= screen_min[1] /\ pos[1] <= screen_max[1]
                /\ pos[2] >= screen_min[2] /\ pos[2] <= screen_max[2]
    IN  SelectSeq(Indices(Len(chunk.objects)), Inside)

\* clamp as the code does: v.max(lo).min(hi)
Clamp(v, lo, hi) == Min(Max(v, lo), hi)

\* the cells the two loops of update_visible_tiles go through, as indices
\* y * CHUNK_SIZE + x, for y in start_y..end_y and, within it, x in
\* start_x..end_x (a range whose start is not below its end is empty)
GridCells(chunk, camera, screen) ==
    LET screen_min == VSub(camera, HalfSize(screen))
        screen_max == VAdd(camera, HalfSize(screen))
        start_x == Clamp(FloorDiv(screen_min[1] - chunk.bounds[1][1], TILE_SIZE), 0, CHUNK_SIZE - 1)
        end_x == Clamp(CeilDiv(screen_max[1] - chunk.bounds[1][1], TILE_SIZE), 0, CHUNK_SIZE)
        start_y == Clamp(FloorDiv(screen_min[2] - chunk.bounds[1][2], TILE_SIZE), 0, CHUNK_SIZE - 1)
        end_y == Clamp(CeilDiv(screen_max[2] - chunk.bounds[1][2], TILE_SIZE), 0, CHUNK_SIZE)
        nx == Max(end_x - start_x, 0)
        ny == Max(end_y - start_y, 0)
    IN  [k \in 1..(nx * ny) |->
            (start_y + ((k - 1) \div nx)) * CHUNK_SIZE + start_x + ((k - 1) % nx)]

\* a variant of update_visible_tiles without the test against tiles.len()
update_visible_tiles_unchecked(chunk, camera, screen) ==
    GridCells(chunk, camera, screen)

\* Chunk::update_visible_tiles: the new visible_tiles
update_visible_tiles(chunk, camera, screen) ==
    LET InTiles(index) == index < Len(chunk.tiles)
    IN  SelectSeq(GridCells(chunk, camera, screen), InTiles)

\* the actor ticks of Chunk::update, in the order of active_objects
RECURSIVE TickObjects(_, _, _, _)
TickObjects(objs, active, k, d) ==
    IF k > Len(active) THEN objs
    ELSE LET i == active[k] + 1
         IN  TickObjects(IF i <= Len(objs) THEN [objs EXCEPT ![i] = tick(objs[i], d)] ELSE objs,
                         active, k + 1, d)

\* entries of the tick log
ObjTicks(chunk) ==
    [k \in 1..Len(chunk.active_objects) |->
        [kind |-> "object", id |-> chunk.objects[chunk.active_objects[k] + 1].id]]
TileTicks(chunk) ==
    [k \in 1..Len(chunk.visible_tiles) |->
        [kind |-> "tile", id |-> chunk.tiles[chunk.visible_tiles[k] + 1].id]]

\* a variant of Chunk::update without the visibility test
ChunkUpdate_unguarded(chunk, camera, screen, d) ==
    LET active == update_active_objects(chunk, camera, screen)
    IN  [chunk EXCEPT !.active_objects = active,
                      !.visible_tiles = update_visible_tiles(chunk, camera, screen),
                      !.objects = TickObjects(chunk.objects, active, 1, d)]

\* Chunk::update: the new chunk (a tile tick changes nothing: the example
\* tiles have empty ticks)
ChunkUpdate(chunk, camera, screen, d) ==
    IF ~is_visible(chunk, camera, screen) THEN chunk
    ELSE LET active == update_active_objects(chunk, camera, screen)
             tiles == update_visible_tiles(chunk, camera, screen)
         IN  [chunk EXCEPT !.active_objects = active,
                           !.visible_tiles = tiles,
                           !.objects = TickObjects(chunk.objects, active, 1, d)]

\* a variant of Chunk::update's two loops with the tile loop first
ChunkUpdateTicks_tiles_first(chunk, camera, screen) ==
    IF ~is_visible(chunk, camera, screen) THEN <<>>
    ELSE LET c == [chunk EXCEPT !.active_objects = update_active_objects(chunk, camera, screen),
                                !.visible_tiles = update_visible_tiles(chunk, camera, screen)]
         IN  TileTicks(c) \o ObjTicks(c)

\* what Chunk::update ticked, in order: actors, then tiles
ChunkUpdateTicks(chunk, camera, screen) ==
    IF ~is_visible(chunk, camera, screen) THEN <<>>
    ELSE LET c == [chunk EXCEPT !.active_objects = update_active_objects(chunk, camera, screen),
                                !.visible_tiles = update_visible_tiles(chunk, camera, screen)]
         IN  ObjTicks(c) \o TileTicks(c)

\* Chunk::draw_tiles: the new chunk (visible_tiles is recomputed when the chunk
\* is visible) and the draw calls submitted, in order
draw_tiles(chunk, camera, screen) ==
    IF ~is_visible(chunk, camera, screen) THEN chunk
    ELSE [chunk EXCEPT !.visible_tiles = update_visible_tiles(chunk, camera, screen)]

TileDraws(chunk, camera, screen) ==
    LET c == draw_tiles(chunk, camera, screen)
    IN  IF ~is_visible(chunk, camera, screen) THEN <<>>
        ELSE [k \in 1..Len(c.visible_tiles) |->
                 [kind |-> "tile", id |-> c.tiles[c.visible_tiles[k] + 1].id]]

\* Chunk::draw_objects: the draw calls submitted, in the order of the stored
\* active_objects; an index past the end of objects is skipped
ObjectDraws(chunk) ==
    LET Held(i) == i < Len(chunk.objects)
        held == SelectSeq(chunk.active_objects, Held)
    IN  [k \in 1..Len(held) |-> [kind |-> "object", id |-> chunk.objects[held[k] + 1].id]]


(***************************************************************************)
(* World                                                                   *)
(***************************************************************************)
\* a variant of get_chunk_coords without floor(): the quotient is truncated
get_chunk_coords_truncating(pos) ==
    <<(IF pos[1] >= 0 THEN pos[1] \div CHUNK_PIXELS ELSE -((-pos[1]) \div CHUNK_PIXELS)),
      (IF pos[2] >= 0 THEN pos[2] \div CHUNK_PIXELS ELSE -((-pos[2]) \div CHUNK_PIXELS))>>

\* World::get_chunk_coords
get_chunk_coords(pos) ==
    <<FloorDiv(pos[1], CHUNK_PIXELS), FloorDiv(pos[2], CHUNK_PIXELS)>>

\* the key add_chunk computes: (chunk.pos.x as i32, chunk.pos.y as i32)
chunk_key(chunk) == <<AsI32(chunk.pos[1]), AsI32(chunk.pos[2])>>

\* a variant of add_chunk in which the last writer wins
add_chunk_overwriting(chs, chunk) == (chunk_key(chunk) :> chunk) @@ chs

\* World::add_chunk: the new map
add_chunk(chs, chunk) ==
    IF chunk_key(chunk) \notin DOMAIN chs
    THEN (chunk_key(chunk) :> chunk) @@ chs
    ELSE chs

\* a variant of remove that leaves the entry in the map
MapRemove_leaving(chs, k) == chs

\* a variant of insert that forgets the chunk
MapInsert_dropping(chs, k, c) == chs

\* HashMap::remove and HashMap::insert
MapRemove(chs, k) == [x \in DOMAIN chs \ {k} |-> chs[x]]
MapInsert(chs, k, c) == (k :> c) @@ chs

\* a variant of update_visible_chunks whose ranges exclude their upper end
update_visible_chunks_exclusive(camera_chunk) ==
    LET side == 2 * render_dist
    IN  [k \in 1..(side * side) |->
            <<camera_chunk[1] + ((k - 1) % side) - render_dist,
              camera_chunk[2] + ((k - 1) \div side) - render_dist>>]

\* World::update_visible_chunks: y outer, x inner, both -render_dist..=render_dist
update_visible_chunks(camera_chunk) ==
    LET side == 2 * render_dist + 1
    IN  [k \in 1..(side * side) |->
            <<camera_chunk[1] + ((k - 1) % side) - render_dist,
              camera_chunk[2] + ((k - 1) \div side) - render_dist>>]

\* the moves the scan records for one chunk position: (chunk_pos, new_chunk_pos, obj_index)
ScanChunk(chs, chunk_pos) ==
    IF chunk_pos \notin DOMAIN chs THEN <<>>
    ELSE LET objs == chs[chunk_pos].objects
             all == [i \in 1..Len(objs) |->
                        <<chunk_pos, get_chunk_coords(objs[i].pos), i - 1>>]
             Leaves(m) == m[2] # m[1]
         IN  SelectSeq(all, Leaves)

\* the migration scan over the visible chunks, in order
RECURSIVE ScanFrom(_, _, _)
ScanFrom(chs, visible, k) ==
    IF k > Len(visible) THEN <<>>
    ELSE ScanChunk(chs, visible[k]) \o ScanFrom(chs, visible, k + 1)

\* a variant of the comparator that orders the indices of a chunk ascending
CompareMovements_ascending(a, b) ==
    IF a[1] = b[1]
    THEN (IF a[3] < b[3] THEN "Less" ELSE IF a[3] > b[3] THEN "Greater" ELSE "Equal")
    ELSE "Equal"

\* the comparator given to sort_by
CompareMovements(a, b) ==
    IF a[1] = b[1]
    THEN (IF b[3] < a[3] THEN "Less" ELSE IF b[3] > a[3] THEN "Greater" ELSE "Equal")
    ELSE "Equal"

\* slice::sort_by is a stable sort; on the short slices of the model it is an
\* insertion sort: each element moves left while it compares Less than its
\* predecessor.
RECURSIVE InsertTail(_, _)
InsertTail(sorted, m) ==
    IF sorted = <<>> THEN <<m>>
    ELSE IF CompareMovements(m, sorted[Len(sorted)]) = "Less"
         THEN Append(InsertTail(SubSeq(sorted, 1, Len(sorted) - 1), m), sorted[Len(sorted)])
         ELSE Append(sorted, m)

RECURSIVE SortMovements(_)
SortMovements(ms) ==
    IF ms = <<>> THEN <<>>
    ELSE InsertTail(SortMovements(SubSeq(ms, 1, Len(ms) - 1)), ms[Len(ms)])

\* Vec::remove(i) for a 0-based i
SeqRemove(s, i) == SubSeq(s, 1, i) \o SubSeq(s, i + 2, Len(s))

\* a variant of the loop body that puts the actor back into its source chunk
\* when the destination is missing
ApplyMovement_keeping(chs, mv) ==
    IF mv[1] \notin DOMAIN chs THEN chs
    ELSE IF mv[3] < Len(chs[mv[1]].objects)
         THEN LET obj == chs[mv[1]].objects[mv[3] + 1]
                  back == [chs EXCEPT ![mv[1]].objects = SeqRemove(@, mv[3])]
              IN  IF mv[2] \in DOMAIN back
                  THEN [back EXCEPT ![mv[2]].objects = Append(@, obj)]
                  ELSE [back EXCEPT ![mv[1]].objects = Append(@, obj)]
         ELSE chs

\* one iteration of the migration-apply loop: the new map
ApplyMovement(chs, mv) ==
    LET old_pos == mv[1]
        new_pos == mv[2]
        obj_index == mv[3]
    IN  IF old_pos \notin DOMAIN chs THEN chs
        ELSE LET chunk == chs[old_pos]
                 removed == MapRemove(chs, old_pos)
             IN  IF obj_index < Len(chunk.objects)
                 THEN LET obj == chunk.objects[obj_index + 1]
                          rest == [chunk EXCEPT !.objects = SeqRemove(chunk.objects, obj_index)]
                          back == MapInsert(removed, old_pos, rest)
                      IN  IF new_pos \in DOMAIN back
                          THEN [back EXCEPT ![new_pos].objects = Append(@, obj)]
                          ELSE back
                 ELSE MapInsert(removed, old_pos, chunk)

\* what one iteration did: the id of the actor it removed, 0 when the move was
\* discarded (source chunk missing, or index out of range)
MovementTaken(chs, mv) ==
    IF mv[1] \in DOMAIN chs /\ mv[3] < Len(chs[mv[1]].objects)
    THEN chs[mv[1]].objects[mv[3] + 1].id
    ELSE 0

\* the whole migration-apply loop: the new map
RECURSIVE ApplyMovements(_, _)
ApplyMovements(chs, ms) ==
    IF ms = <<>> THEN chs
    ELSE ApplyMovements(ApplyMovement(chs, Head(ms)), Tail(ms))

\* the log of the loop: for each move, in order, the actor it removed
RECURSIVE AppliedLog(_, _)
AppliedLog(chs, ms) ==
    IF ms = <<>> THEN <<>>
    ELSE <<[mv |-> Head(ms), id |-> MovementTaken(chs, Head(ms))]>>
         \o AppliedLog(ApplyMovement(chs, Head(ms)), Tail(ms))


(***************************************************************************)
(* World::check_obj_collisions                                             *)
(***************************************************************************)
\* the actors drained from the visible chunks, in order, and the parallel
\* list of the chunk positions they came from
RECURSIVE DrainObjects(_, _, _)
DrainObjects(chs, visible, k) ==
    IF k > Len(visible) THEN <<>>
    ELSE (IF visible[k] \in DOMAIN chs THEN chs[visible[k]].objects ELSE <<>>)
         \o DrainObjects(chs, visible, k + 1)

RECURSIVE DrainPositions(_, _, _)
DrainPositions(chs, visible, k) ==
    IF k > Len(visible) THEN <<>>
    ELSE (IF visible[k] \in DOMAIN chs
          THEN [i \in 1..Len(chs[visible[k]].objects) |-> visible[k]]
          ELSE <<>>)
         \o DrainPositions(chs, visible, k + 1)

\* the map after chunk.objects.drain(..) on every visible chunk
DrainedChunks(chs, visible) ==
    [x \in DOMAIN chs |->
        IF \E k \in 1..Len(visible) : visible[k] = x
        THEN [chs[x] EXCEPT !.objects = <<>>]
        ELSE chs[x]]

will_collide(obj1, obj2) ==
    LET next_pos1 == VAdd(obj1.pos, obj1.vel)
        next_pos2 == VAdd(obj2.pos, obj2.vel)
        size1 == get_size(obj1)
        size2 == get_size(obj2)
    IN  /\ next_pos1[1] < next_pos2[1] + size2[1]
        /\ next_pos1[1] + size1[1] > next_pos2[1]
        /\ next_pos1[2] < next_pos2[2] + size2[2]
        /\ next_pos1[2] + size1[2] > next_pos2[2]

moving_towards_each_other(obj1, obj2) ==
    LET relative_velocity == VSub(obj1.vel, obj2.vel)
        direction == VSub(obj2.pos, obj1.pos)
    IN  Dot(relative_velocity, direction) > 0

\* a collision callback as the log records it: who received it, with whom as
\* argument, and the state of that argument when the callback ran
Call(self, other) == [self |-> self.id, other |-> other.id, saw |-> other]

\* a variant of the loop body that notifies the first actor only
PairStep_one_sided(objs, i, j) ==
    IF will_collide(objs[i], objs[j]) /\ moving_towards_each_other(objs[i], objs[j])
    THEN [objects |-> [objs EXCEPT ![i] = collision(objs[i], objs[j])],
          calls |-> <<Call(objs[i], objs[j])>>]
    ELSE [objects |-> objs, calls |-> <<>>]

\* a variant of the loop body that hands each callback the other actor as it
\* was when the pair was examined
PairStep_simultaneous(objs, i, j) ==
    IF will_collide(objs[i], objs[j]) /\ moving_towards_each_other(objs[i], objs[j])
    THEN [objects |-> [objs EXCEPT ![i] = collision(objs[i], objs[j]),
                                   ![j] = collision(objs[j], objs[i])],
          calls |-> <<Call(objs[i], objs[j]), Call(objs[j], objs[i])>>]
    ELSE [objects |-> objs, calls |-> <<>>]

\* the body of the pair loop for the pair (i, j), i < j, 1-based: the new
\* working list and the callbacks made
PairStep(objs, i, j) ==
    LET obj1 == objs[i]
        obj2 == objs[j]
    IN  IF will_collide(obj1, obj2) /\ moving_towards_each_other(obj1, obj2)
        THEN LET new1 == collision(obj1, obj2)
                 new2 == collision(obj2, new1)
             IN  [objects |-> [objs EXCEPT ![i] = new1, ![j] = new2],
                  calls |-> <<Call(obj1, obj2), Call(obj2, new1)>>]
        ELSE [objects |-> objs, calls |-> <<>>]

\* the pair loop from the pair (i, j) on: the final working list and, for
\* each pair examined, the two states tested and the callbacks made
RECURSIVE PairLoop(_, _, _)
PairLoop(objs, i, j) ==
    IF i > Len(objs) THEN [objects |-> objs, exams |-> <<>>]
    ELSE IF j > Len(objs) THEN PairLoop(objs, i + 1, i + 2)
    ELSE LET step == PairStep(objs, i, j)
             rest == PairLoop(step.objects, i, j + 1)
         IN  [objects |-> rest.objects,
              exams |-> <<[a |-> objs[i], b |-> objs[j], calls |-> step.calls]>>
                        \o rest.exams]

\* a variant of the final loop that walks the working list from its end
RECURSIVE RestoreObjects_backwards(_, _, _)
RestoreObjects_backwards(chs, objs, positions) ==
    IF objs = <<>> THEN chs
    ELSE RestoreObjects_backwards(
             IF positions[Len(positions)] \in DOMAIN chs
             THEN [chs EXCEPT ![positions[Len(positions)]].objects = Append(@, objs[Len(objs)])]
             ELSE chs,
             SubSeq(objs, 1, Len(objs) - 1), SubSeq(positions, 1, Len(positions) - 1))

\* the final loop: each actor is pushed back into the chunk it was drained from
RECURSIVE RestoreObjects(_, _, _)
RestoreObjects(chs, objs, positions) ==
    IF objs = <<>> THEN chs
    ELSE RestoreObjects(
             IF Head(positions) \in DOMAIN chs
             THEN [chs EXCEPT ![Head(positions)].objects = Append(@, Head(objs))]
             ELSE chs,
             Tail(objs), Tail(positions))

\* the whole pass: the new map, with what was drained and examined
check_obj_collisions(chs, visible) ==
    LET objects == DrainObjects(chs, visible, 1)
        chunk_positions == DrainPositions(chs, visible, 1)
        loop == PairLoop(objects, 1, 2)
    IN  [chunks |-> RestoreObjects(DrainedChunks(chs, visible), loop.objects, chunk_positions),
         drained |-> objects,
         exams |-> loop.exams]


\* a lookup that forgets to compare the type tag
RECURSIVE get_objects_by_type_untagged(_, _, _, _)
get_objects_by_type_untagged(chs, visible, k, type_tag) ==
    IF k > Len(visible) THEN <<>>
    ELSE (IF visible[k] \in DOMAIN chs
          THEN chs[visible[k]].objects
          ELSE <<>>)
         \o get_objects_by_type_untagged(chs, visible, k + 1, type_tag)

\* World::get_objects_by_type and World::get_tiles_by_type: the ids found
RECURSIVE get_objects_by_type(_, _, _, _)
get_objects_by_type(chs, visible, k, type_tag) ==
    IF k > Len(visible) THEN <<>>
    ELSE (IF visible[k] \in DOMAIN chs
          THEN LET HasTag(o) == o.tag = type_tag
               IN  SelectSeq(chs[visible[k]].objects, HasTag)
          ELSE <<>>)
         \o get_objects_by_type(chs, visible, k + 1, type_tag)

RECURSIVE get_tiles_by_type(_, _, _, _)
get_tiles_by_type(chs, visible, k, type_tag) ==
    IF k > Len(visible) THEN <<>>
    ELSE (IF visible[k] \in DOMAIN chs
          THEN LET HasTag(t) == t.tag = type_tag
               IN  SelectSeq(chs[visible[k]].tiles, HasTag)
          ELSE <<>>)
         \o get_tiles_by_type(chs, visible, k + 1, type_tag)

\* World::draw, first loop: the map after draw_tiles on every loaded chunk of
\* the window, and the tile draw calls, tagged with the chunk that made them
DrawTilesMap(chs, visible, camera, screen) ==
    [x \in DOMAIN chs |->
        IF \E k \in 1..Len(visible) : visible[k] = x
        THEN draw_tiles(chs[x], camera, screen)
        ELSE chs[x]]

FromChunk(calls, K) == [k \in 1..Len(calls) |-> [kind |-> calls[k].kind, id |-> calls[k].id, chunk |-> K]]

RECURSIVE DrawTilesFrom(_, _, _, _, _)
DrawTilesFrom(chs, visible, k, camera, screen) ==
    IF k > Len(visible) THEN <<>>
    ELSE (IF visible[k] \in DOMAIN chs
          THEN FromChunk(TileDraws(chs[visible[k]], camera, screen), visible[k])
          ELSE <<>>)
         \o DrawTilesFrom(chs, visible, k + 1, camera, screen)

\* World::draw, second loop: the actor draw calls
RECURSIVE DrawObjectsFrom(_, _, _)
DrawObjectsFrom(chs, visible, k) ==
    IF k > Len(visible) THEN <<>>
    ELSE (IF visible[k] \in DOMAIN chs
          THEN FromChunk(ObjectDraws(chs[visible[k]]), visible[k])
          ELSE <<>>)
         \o DrawObjectsFrom(chs, visible, k + 1)

(***************************************************************************)
(* Inputs: the chunks the host builds and the frames it issues             *)
(***************************************************************************)
Actor(id, tag, pos, vel) ==
    [id |-> id, tag |-> tag, pos |-> pos, vel |-> vel,
     size |-> <<TILE_SIZE, TILE_SIZE>>, move_timer |-> 0, direction_change_timer |-> 0]
Tile(id, tag, pos) == [id |-> id, tag |-> tag, pos |-> pos, size |-> <<TILE_SIZE, TILE_SIZE>>]

\* chunk (0, 0): two mobs about to leave over opposite edges, a crate between
ChunkA ==
    [NewChunk(<<Whole(0), Whole(0)>>) EXCEPT
        !.tiles = <<Tile(101, "stone", <<0, 0>>), Tile(102, "stone", <<16, 0>>)>>,
        !.objects = <<Actor(1, "mob", <<250, 100>>, <<10, 0>>),
                      Actor(2, "crate", <<100, 100>>, <<0, 0>>),
                      Actor(3, "mob", <<4, 100>>, <<-10, 0>>)>>]

\* chunk (1, 0): a head-on pair two tiles apart, and a crate closing in on two
\* crates at rest
ChunkB ==
    [NewChunk(<<Whole(1), Whole(0)>>) EXCEPT
        !.tiles = <<Tile(103, "stone", <<256, 0>>)>>,
        !.objects = <<Actor(4, "crate", <<300, 50>>, <<2 * TILE_SIZE, 0>>),
                      Actor(5, "crate", <<300 + 2 * TILE_SIZE, 50>>, <<-2 * TILE_SIZE, 0>>),
                      Actor(6, "crate", <<400, 200>>, <<4, 0>>),
                      Actor(7, "crate", <<410, 200>>, <<0, 0>>),
                      Actor(8, "crate", <<412, 204>>, <<0, 0>>)>>]

\* chunk (3, 0): outside the window of a camera in chunk (0, 0)
ChunkFar ==
    [NewChunk(<<Whole(3), Whole(0)>>) EXCEPT
        !.objects = <<Actor(9, "mob", <<800, 100>>, <<10, 0>>)>>]

\* a chunk built at the fractional position (-0.5, 0): its box spans x from
\* -128 to 128, and `as i32` gives it the key (0, 0), the key of ChunkA
ChunkHalf ==
    [NewChunk(<<[w |-> -1, h |-> 1], Whole(0)>>) EXCEPT
        !.tiles = <<Tile(104, "air", <<-128, 0>>)>>,
        !.objects = <<Actor(10, "crate", <<-50, 100>>, <<0, 0>>)>>]

ChunkInputs == {ChunkA, ChunkB, ChunkFar, ChunkHalf}
\* camera.target: inside chunk (0, 0); inside chunk (3, 0); left of the origin,
\* where an 800-wide viewport ends on x = 0; on the edge between chunks (0, 0)
\* and (1, 0)
CameraInputs == {<<128, 128>>, <<900, 128>>, <<-400, 128>>, <<256, 128>>}
ScreenInputs == {<<800, 600>>, <<0, 0>>}
\* get_frame_time(): an eighth of a second, or a whole second
DtInputs == {1, 8}

(***************************************************************************)
(* Saved records and the registries                                        *)
(***************************************************************************)
\* Object::set_pos, Object::set_size (Mob stores what it is given)
set_pos(o, p) == [o EXCEPT !.pos = p]
set_size(o, sz) == [o EXCEPT !.size = sz]
\* Tile::get_size of the example tiles: a fixed size
tile_get_size(t) == <<TILE_SIZE, TILE_SIZE>>

\* SerializableObject::serialize and SerializableTile::serialize: the JSON
\* text of an ObjectData / TileData, which has these three members and no
\* other (finite f32 values are written and read back exactly)
serialize_object(o) == [type_tag |-> o.tag, pos |-> o.pos, size |-> get_size(o)]
serialize_tile(t) == [type_tag |-> t.tag, pos |-> t.pos, size |-> tile_get_size(t)]

\* serde_json::from_str::<T>(text): a JSON text is a record of its members,
\* and it parses as T when it has every member of T
ParsesAs(text, members) == members \subseteq DOMAIN text

\* ObjectRegistry::deserialize_object and TileRegistry::deserialize_tile: a
\* clone of the prototype registered under the tag, given the saved position
\* and size
\* a variant of deserialize_object that builds an actor of an unknown type
\* from the record alone
deserialize_object_lenient(registry, data) ==
    IF ~ParsesAs(data, {"type_tag", "pos", "size"})
    THEN [ok |-> FALSE, err |-> "Failed to deserialize ObjectData"]
    ELSE IF data.type_tag \notin DOMAIN registry
    THEN [ok |-> TRUE, value |-> set_size(Actor(0, data.type_tag, data.pos, <<0, 0>>), data.size)]
    ELSE [ok |-> TRUE, value |-> set_size(set_pos(registry[data.type_tag], data.pos), data.size)]

deserialize_object(registry, data) ==
    IF ~ParsesAs(data, {"type_tag", "pos", "size"})
    THEN [ok |-> FALSE, err |-> "Failed to deserialize ObjectData"]
    ELSE IF data.type_tag \notin DOMAIN registry
    THEN [ok |-> FALSE, err |-> "Unknown object type"]
    ELSE [ok |-> TRUE, value |-> set_size(set_pos(registry[data.type_tag], data.pos), data.size)]

deserialize_tile(registry, data) ==
    IF ~ParsesAs(data, {"type_tag", "pos", "size"})
    THEN [ok |-> FALSE, err |-> "Failed to deserialize TileData"]
    ELSE IF data.type_tag \notin DOMAIN registry
    THEN [ok |-> FALSE, err |-> "Unknown tile type"]
    ELSE [ok |-> TRUE, value |-> set_size(set_pos(registry[data.type_tag], data.pos), data.size)]

\* the registries the example sets up: prototypes at Vec2::ZERO, at rest
ExampleObjects ==
    ("mob" :> Actor(0, "mob", <<0, 0>>, <<0, 0>>)) @@ ("crate" :> Actor(0, "crate", <<0, 0>>, <<0, 0>>))
\* a biome is its type tag; Plains is the biome of the example
ExampleBiomes == <<"plains">>
ExampleTiles ==
    ("air" :> Tile(0, "air", <<0, 0>>)) @@ ("stone" :> Tile(0, "stone", <<0, 0>>))

\* the tiles and actors handed to serialize: registered and unregistered tags,
\* positions on both sides of the origin, at rest and moving
PosInputs == {<<0, 0>>, <<250, 100>>, <<-6, 100>>}
VelInputs == {<<0, 0>>, <<10, 0>>, <<0, -1>>}
SizeInputs == {<<TILE_SIZE, TILE_SIZE>>, <<8, 24>>}
ObjectSubjects ==
    {[kind |-> "object", value |-> set_size(Actor(1, tag, pos, vel), sz)] :
        tag \in {"mob", "crate", "ghost"}, pos \in PosInputs, vel \in VelInputs, sz \in SizeInputs}
TileSubjects ==
    {[kind |-> "tile", value |-> Tile(1, tag, pos)] :
        tag \in {"air", "stone", "lava"}, pos \in PosInputs}

(***************************************************************************)
(* The statements of World::update, in order                               *)
(***************************************************************************)
\* a variant of the order that ticks the chunks before the collision pass
UpdateOrder_ticks_first == <<"visible", "scan", "apply", "tick", "collide", "idle">>

UpdateOrder == <<"visible", "scan", "apply", "collide", "tick", "idle">>
\* the statement that follows phase p
After(p) == UpdateOrder[(CHOOSE k \in 1..Len(UpdateOrder) : UpdateOrder[k] = p) + 1]

EmptyHist ==
    [start |-> <<>>,        \* the map when update was called
     phases |-> <<>>,       \* the phases run so far
     scanned |-> <<>>,      \* the map the migration scan read
     recorded |-> <<>>,     \* the moves as sorted
     applied |-> <<>>,      \* per move, the actor removed
     drained_from |-> <<>>, \* the map the collision pass drained
     drained |-> <<>>,      \* the working list at the start of the pass
     exams |-> <<>>,        \* the pairs examined
     ticks |-> <<>>,        \* the ticks made so far
     chunk_before |-> <<>>, \* the chunk handed to the last Chunk::update
     chunk_ticks |-> <<>>,  \* the ticks that Chunk::update made
     added |-> <<>>,        \* add_chunk, when it is the last operation: argument, map before and after
     drew |-> FALSE,        \* World::draw has run after this update
     drawn |-> <<>>]        \* the draw calls it submitted

\* a save directory that does not exist yet, and no save or load made
EmptyDir == [dir |-> FALSE, meta |-> <<>>, files |-> <<>>]
NothingSaved ==
    /\ save_dir = EmptyDir
    /\ result = <<>>
    /\ io_failures = {}
\* no instance created yet, no callback being made
NothingCreated ==
    /\ colliding = <<>>
    /\ collided = <<>>
    /\ heap = <<>>
    /\ instances = <<>>
    /\ created = <<>>
    /\ registered = <<>>

\* World::new, with the registries of the example and nothing being saved
WorldInit ==
    /\ chunks = <<>>
    /\ visible_chunks = <<>>
    /\ pc = "idle"
    /\ camera_pos = <<0, 0>>
    /\ screen_size = <<0, 0>>
    /\ dt = 0
    /\ movements = <<>>
    /\ vi = 1
    /\ taken = <<>>
    /\ updates = 0
    /\ hist = EmptyHist
    /\ object_registry = ExampleObjects
    /\ tile_registry = ExampleTiles
    /\ biome_registry = ExampleBiomes
    /\ found = <<>>

Init ==
    /\ WorldInit
    /\ subject = <<>>
    /\ record = <<>>
    /\ restored = <<>>
    /\ NothingSaved
    /\ NothingCreated

\* World::add_chunk
AddChunk ==
    /\ pc = "idle"
    /\ \E c \in ChunkInputs :
        /\ chunks' = add_chunk(chunks, c)
        /\ hist' = [EmptyHist EXCEPT !.added = <<[chunk |-> c, before |-> chunks, after |-> chunks']>>]
    /\ UNCHANGED <<visible_chunks, pc, camera_pos, screen_size, dt, movements,
                   vi, taken, updates>>
    /\ UNCHANGED recordVars

\* World::update is called: the visible window is recomputed
UpdateVisible ==
    /\ pc = "idle"
    /\ updates < MaxUpdates
    /\ \E c \in CameraInputs, s \in ScreenInputs, d \in DtInputs :
        /\ camera_pos' = c
        /\ screen_size' = s
        /\ dt' = d
        /\ visible_chunks' = update_visible_chunks(get_chunk_coords(c))
    /\ pc' = After("visible")
    /\ hist' = [EmptyHist EXCEPT !.start = chunks, !.phases = <<"visible">>]
    /\ vi' = 1
    /\ UNCHANGED <<chunks, movements, taken, updates>>
    /\ UNCHANGED recordVars

\* the migration scan and the sort of the pending moves
MigrationScan ==
    /\ pc = "scan"
    /\ movements' = SortMovements(ScanFrom(chunks, visible_chunks, 1))
    /\ pc' = After("scan")
    /\ hist' = [hist EXCEPT !.scanned = chunks, !.recorded = movements',
                            !.phases = Append(@, "scan")]
    /\ UNCHANGED <<chunks, visible_chunks, camera_pos, screen_size, dt, vi, taken, updates>>
    /\ UNCHANGED recordVars

\* the migration-apply loop
MigrationApply ==
    /\ pc = "apply"
    /\ chunks' = ApplyMovements(chunks, movements)
    /\ movements' = <<>>
    /\ pc' = After("apply")
    /\ hist' = [hist EXCEPT !.applied = AppliedLog(chunks, movements),
                            !.phases = Append(@, "apply")]
    /\ UNCHANGED <<visible_chunks, camera_pos, screen_size, dt, vi, taken, updates>>
    /\ UNCHANGED recordVars

\* self.check_obj_collisions()
CheckObjCollisions ==
    /\ pc = "collide"
    /\ LET pass == check_obj_collisions(chunks, visible_chunks)
       IN  /\ chunks' = pass.chunks
           /\ hist' = [hist EXCEPT !.drained_from = chunks, !.drained = pass.drained,
                                   !.exams = pass.exams,
                                   !.phases = Append(@, "collide")]
    /\ pc' = After("collide")
    /\ UNCHANGED <<visible_chunks, camera_pos, screen_size, dt, movements, vi, taken, updates>>
    /\ UNCHANGED recordVars

\* the positions at or after vi of the tick loop that hold a loaded chunk
LoadedFrom(k) == {n \in k..Len(visible_chunks) : visible_chunks[n] \in DOMAIN chunks}

\* the tick loop reaches a loaded chunk: self.chunks.remove(&chunk_pos)
TickTake ==
    /\ pc = "tick"
    /\ LoadedFrom(vi) # {}
    /\ LET n == CHOOSE n \in LoadedFrom(vi) : \A m \in LoadedFrom(vi) : n <= m
       IN  /\ vi' = n
           /\ taken' = <<chunks[visible_chunks[n]]>>
           /\ chunks' = MapRemove(chunks, visible_chunks[n])
    /\ pc' = "chunk_update"
    /\ hist' = [hist EXCEPT !.phases = IF @[Len(@)] = "tick" THEN @ ELSE Append(@, "tick")]
    /\ UNCHANGED <<visible_chunks, camera_pos, screen_size, dt, movements, updates>>
    /\ UNCHANGED recordVars

\* chunk.update(self, camera_pos, screen_size, get_frame_time())
ChunkUpdateStep ==
    /\ pc = "chunk_update"
    /\ taken' = <<ChunkUpdate(taken[1], camera_pos, screen_size, dt)>>
    /\ hist' = [hist EXCEPT !.ticks = @ \o ChunkUpdateTicks(taken[1], camera_pos, screen_size),
                            !.chunk_before = <<taken[1]>>,
                            !.chunk_ticks = ChunkUpdateTicks(taken[1], camera_pos, screen_size)]
    /\ pc' = "reinsert"
    /\ UNCHANGED <<chunks, visible_chunks, camera_pos, screen_size, dt, movements,
                   vi, updates>>
    /\ UNCHANGED recordVars

\* self.chunks.insert(chunk_pos, chunk)
ChunkReinsert ==
    /\ pc = "reinsert"
    /\ chunks' = MapInsert(chunks, visible_chunks[vi], taken[1])
    /\ taken' = <<>>
    /\ vi' = vi + 1
    /\ pc' = "tick"
    /\ UNCHANGED <<visible_chunks, camera_pos, screen_size, dt, movements, updates, hist>>
    /\ UNCHANGED recordVars

\* the tick loop is over: update returns
UpdateReturn ==
    /\ pc = "tick"
    /\ LoadedFrom(vi) = {}
    /\ pc' = After("tick")
    /\ updates' = updates + 1
    /\ UNCHANGED <<chunks, visible_chunks, camera_pos, screen_size, dt, movements,
                   vi, taken, hist>>
    /\ UNCHANGED recordVars

\* World::draw, called by the main loop after update with the same camera and
\* viewport
Draw ==
    /\ pc = "idle"
    /\ updates > 0
    /\ ~hist.drew
    /\ chunks' = DrawTilesMap(chunks, visible_chunks, camera_pos, screen_size)
    /\ hist' = [hist EXCEPT !.drew = TRUE,
                            !.added = <<>>,
                            !.drawn = DrawTilesFrom(chunks, visible_chunks, 1, camera_pos, screen_size)
                                      \o DrawObjectsFrom(chunks', visible_chunks, 1)]
    /\ UNCHANGED <<visible_chunks, pc, camera_pos, screen_size, dt, movements,
                   vi, taken, updates>>
    /\ UNCHANGED recordVars

Next ==
    \/ AddChunk
    \/ UpdateVisible
    \/ MigrationScan
    \/ MigrationApply
    \/ CheckObjCollisions
    \/ TickTake
    \/ ChunkUpdateStep
    \/ ChunkReinsert
    \/ UpdateReturn
    \/ Draw

Spec == Init /\ [][Next]_vars

(***************************************************************************)
(* Saving and restoring one tile or actor                                  *)
(***************************************************************************)
RecordInit ==
    /\ WorldInit
    /\ subject \in {<<x>> : x \in ObjectSubjects \cup TileSubjects}
    /\ record = <<>>
    /\ restored = <<>>
    /\ NothingSaved
    /\ NothingCreated

\* x.serialize()
Serialize ==
    /\ record = <<>>
    /\ record' = <<IF subject[1].kind = "object"
                    THEN serialize_object(subject[1].value)
                    ELSE serialize_tile(subject[1].value)>>
    /\ UNCHANGED <<object_registry, tile_registry, subject, restored>>
    /\ UNCHANGED storeVars
    /\ UNCHANGED registryVars
    /\ UNCHANGED biomeVars
    /\ UNCHANGED handlerVars
    /\ UNCHANGED worldVars

\* registry.deserialize_object(&text) / registry.deserialize_tile(&text)
Deserialize ==
    /\ record # <<>>
    /\ restored = <<>>
    /\ restored' = <<IF subject[1].kind = "object"
                      THEN deserialize_object(object_registry, record[1])
                      ELSE deserialize_tile(tile_registry, record[1])>>
    /\ UNCHANGED <<object_registry, tile_registry, subject, record>>
    /\ UNCHANGED storeVars
    /\ UNCHANGED registryVars
    /\ UNCHANGED biomeVars
    /\ UNCHANGED handlerVars
    /\ UNCHANGED worldVars

RecordNext ==
    \/ Serialize
    \/ Deserialize

RecordSpec == RecordInit /\ [][RecordNext]_vars

(***************************************************************************)
(* Saving and restoring a chunk                                            *)
(***************************************************************************)
\* Vec2Save::from(Vec2) and Vec2::from(Vec2Save)
Vec2SaveFrom(v) == [x |-> v[1], y |-> v[2]]
Vec2From(save) == <<save.x, save.y>>

\* a variant of serialize that writes the actors last to first
serialize_chunk_reversed(chunk) ==
    [pos |-> Vec2SaveFrom(chunk.pos),
     tiles |-> [k \in 1..Len(chunk.tiles) |-> serialize_tile(chunk.tiles[k])],
     objects |-> [k \in 1..Len(chunk.objects) |->
                     serialize_object(chunk.objects[Len(chunk.objects) + 1 - k])]]

\* Chunk::serialize: the JSON text of a ChunkData
serialize_chunk(chunk) ==
    [pos |-> Vec2SaveFrom(chunk.pos),
     tiles |-> [k \in 1..Len(chunk.tiles) |-> serialize_tile(chunk.tiles[k])],
     objects |-> [k \in 1..Len(chunk.objects) |-> serialize_object(chunk.objects[k])]]

\* a variant of collect that keeps the members that succeeded
CollectResults_lenient(results) ==
    LET good == SelectSeq(results, LAMBDA r : r.ok)
    IN  [ok |-> TRUE, value |-> [k \in 1..Len(good) |-> good[k].value]]

\* .collect::<Result<Vec<_>, _>>(): the first error, or else every value
CollectResults(results) ==
    LET failed == {k \in 1..Len(results) : ~results[k].ok}
    IN  IF failed # {}
        THEN [ok |-> FALSE, err |-> results[CHOOSE k \in failed : \A j \in failed : k <= j].err]
        ELSE [ok |-> TRUE, value |-> [k \in 1..Len(results) |-> results[k].value]]

\* Chunk::deserialize
deserialize_chunk(data, tiles_of, objects_of) ==
    IF ~ParsesAs(data, {"pos", "tiles", "objects"})
    THEN [ok |-> FALSE, err |-> "ChunkData"]
    ELSE LET pos == Vec2From(data.pos)
             tiles_res == CollectResults(
                 [k \in 1..Len(data.tiles) |-> deserialize_tile(tiles_of, data.tiles[k])])
             objects_res == CollectResults(
                 [k \in 1..Len(data.objects) |-> deserialize_object(objects_of, data.objects[k])])
         IN  IF ~tiles_res.ok THEN tiles_res
             ELSE IF ~objects_res.ok THEN objects_res
             ELSE [ok |-> TRUE,
                   value |-> [NewChunk(pos) EXCEPT !.tiles = tiles_res.value,
                                                   !.objects = objects_res.value]]

\* a text that is not the JSON of any record of the program
Garbage == [text |-> "{"]

\* the chunks handed to serialize: up to two tiles and two actors, of
\* registered and unregistered types, at whole and fractional coordinates
TileInputs == {Tile(1, "air", <<0, 0>>), Tile(2, "stone", <<16, 0>>), Tile(3, "lava", <<32, 0>>)}
ActorInputs == {Actor(1, "mob", <<250, 100>>, <<10, 0>>),
                Actor(2, "crate", <<-6, 100>>, <<0, 0>>),
                Actor(3, "ghost", <<0, 0>>, <<0, -1>>)}
SeqsUpTo2(S) == {<<>>} \cup {<<a>> : a \in S} \cup {<<a, b>> : a \in S, b \in S}
ChunkPosInputs == {<<Whole(0), Whole(0)>>, <<Whole(1), Whole(-2)>>, <<[w |-> -1, h |-> 1], Whole(0)>>}
ChunkSubjects ==
    {[NewChunk(pos) EXCEPT !.tiles = ts, !.objects = os] :
        pos \in ChunkPosInputs, ts \in SeqsUpTo2(TileInputs), os \in SeqsUpTo2(ActorInputs)}

ChunkInit ==
    /\ WorldInit
    /\ subject \in {<<c>> : c \in ChunkSubjects}
    /\ record = <<>>
    /\ restored = <<>>
    /\ NothingSaved
    /\ NothingCreated

\* chunk.serialize()
SerializeChunk ==
    /\ record = <<>>
    /\ record' = <<serialize_chunk(subject[1])>>
    /\ UNCHANGED <<object_registry, tile_registry, subject, restored>>
    /\ UNCHANGED storeVars
    /\ UNCHANGED registryVars
    /\ UNCHANGED biomeVars
    /\ UNCHANGED handlerVars
    /\ UNCHANGED worldVars

\* the saved text is damaged before it is read back: one member text, or
\* the whole text, is replaced
Damage ==
    /\ record # <<>>
    /\ restored = <<>>
    /\ ParsesAs(record[1], {"pos", "tiles", "objects"})
    /\ \/ \E k \in 1..Len(record[1].tiles) :
             /\ record[1].tiles[k] # Garbage
             /\ record' = <<[record[1] EXCEPT !.tiles[k] = Garbage]>>
       \/ \E k \in 1..Len(record[1].objects) :
             /\ record[1].objects[k] # Garbage
             /\ record' = <<[record[1] EXCEPT !.objects[k] = Garbage]>>
       \/ record' = <<Garbage>>
    /\ UNCHANGED <<object_registry, tile_registry, subject, restored>>
    /\ UNCHANGED storeVars
    /\ UNCHANGED registryVars
    /\ UNCHANGED biomeVars
    /\ UNCHANGED handlerVars
    /\ UNCHANGED worldVars

\* Chunk::deserialize(&text, &tile_registry, &object_registry)
DeserializeChunk ==
    /\ record # <<>>
    /\ restored = <<>>
    /\ restored' = <<deserialize_chunk(record[1], tile_registry, object_registry)>>
    /\ UNCHANGED <<object_registry, tile_registry, subject, record>>
    /\ UNCHANGED storeVars
    /\ UNCHANGED registryVars
    /\ UNCHANGED biomeVars
    /\ UNCHANGED handlerVars
    /\ UNCHANGED worldVars

ChunkNext ==
    \/ SerializeChunk
    \/ Damage
    \/ DeserializeChunk

ChunkSpec == ChunkInit /\ [][ChunkNext]_vars

(***************************************************************************)
(* Saving and loading a world                                              *)
(***************************************************************************)
\* World.world_name of the example
world_name == "test-world"
\* serde_json::to_string(&WorldData { name })
serialize_world_data(name) == [name |-> name]
\* format!("{}/world.json", save_dir), format!("{}/chunks", save_dir) and
\* format!("{}/chunk_{}_{}.json", chunks_dir, x, y)
WorldJson == <<"world.json">>
ChunksDir == <<"chunks">>
chunk_path(K) == <<"chunk", K[1], K[2]>>

\* the filesystem calls save_world makes
SaveCalls(chs) ==
    {[op |-> "create_dir_all", path |-> ChunksDir], [op |-> "write", path |-> WorldJson]}
        \cup {[op |-> "write", path |-> chunk_path(K)] : K \in DOMAIN chs}

\* World::save_world when the calls in `failing` fail; the loop over the
\* HashMap writes the chunks of `first` before any other.  The Result, and
\* the directory as the call leaves it
save_world(disk, chs, failing, first) ==
    IF [op |-> "create_dir_all", path |-> ChunksDir] \in failing
    THEN [ok |-> FALSE, failed |-> {[op |-> "create_dir_all", path |-> ChunksDir]}, disk |-> disk]
    ELSE IF [op |-> "write", path |-> WorldJson] \in failing
    THEN [ok |-> FALSE, failed |-> {[op |-> "write", path |-> WorldJson]},
          disk |-> [disk EXCEPT !.dir = TRUE]]
    ELSE LET with_meta == [disk EXCEPT !.dir = TRUE,
                                       !.meta = <<serialize_world_data(world_name)>>]
             Written(Ks) == [n \in {chunk_path(K) : K \in Ks} \cup DOMAIN disk.files |->
                                IF \E K \in Ks : n = chunk_path(K)
                                THEN serialize_chunk(chs[CHOOSE K \in Ks : n = chunk_path(K)])
                                ELSE disk.files[n]]
             bad == {K \in DOMAIN chs : [op |-> "write", path |-> chunk_path(K)] \in failing}
         IN  IF bad \ first # {}
             THEN LET K == CHOOSE K \in bad \ first : TRUE
                  IN  [ok |-> FALSE, failed |-> {[op |-> "write", path |-> chunk_path(K)]},
                       disk |-> [with_meta EXCEPT !.files = Written(first)]]
             ELSE [ok |-> TRUE, failed |-> {}, disk |-> [with_meta EXCEPT !.files = Written(DOMAIN chs)]]

\* a variant of the loop of load_world that stops at the first entry it
\* cannot use
RECURSIVE LoadEntries_stopping(_, _, _, _, _, _)
LoadEntries_stopping(chs, files, order, unreadable, tiles_of, objects_of) ==
    IF order = <<>> THEN chs
    ELSE LET res == deserialize_chunk(files[Head(order)], tiles_of, objects_of)
         IN  IF Head(order) \in unreadable \/ ~res.ok
             THEN chs
             ELSE LoadEntries_stopping(add_chunk(chs, res.value), files, Tail(order),
                                       unreadable, tiles_of, objects_of)

\* the loop of load_world over the entries of the chunks directory, in the
\* order read_dir lists them
RECURSIVE LoadEntries(_, _, _, _, _, _)
LoadEntries(chs, files, order, unreadable, tiles_of, objects_of) ==
    IF order = <<>> THEN chs
    ELSE LET res == deserialize_chunk(files[Head(order)], tiles_of, objects_of)
         IN  LoadEntries(IF Head(order) \notin unreadable /\ res.ok
                         THEN add_chunk(chs, res.value)
                         ELSE chs,
                         files, Tail(order), unreadable, tiles_of, objects_of)

\* World::load_world when the calls in `failing` fail and read_dir lists the
\* entries in `order`: the Result, and the calls that did fail
load_world(disk, tiles_of, objects_of, failing, order) ==
    IF disk.meta = <<>> \/ [op |-> "read_to_string", path |-> WorldJson] \in failing
    THEN [ok |-> FALSE, failed |-> {[op |-> "read_to_string", path |-> WorldJson]}]
    ELSE IF ~ParsesAs(disk.meta[1], {"name"})
    THEN [ok |-> FALSE, failed |-> {}]
    ELSE IF ~disk.dir \/ [op |-> "read_dir", path |-> ChunksDir] \in failing
    THEN [ok |-> TRUE, failed |-> {[op |-> "read_dir", path |-> ChunksDir]},
          value |-> [world_name |-> disk.meta[1].name, chunks |-> <<>>]]
    ELSE LET unreadable == {n \in DOMAIN disk.files :
                               [op |-> "read_to_string", path |-> n] \in failing}
         IN  [ok |-> TRUE,
              failed |-> {[op |-> "read_to_string", path |-> n] : n \in unreadable},
              value |-> [world_name |-> disk.meta[1].name,
                         chunks |-> LoadEntries(<<>>, disk.files, order, unreadable,
                                                tiles_of, objects_of)]]

\* a chunk with an actor of a type that is not registered
ChunkGhost ==
    [NewChunk(<<Whole(0), Whole(1)>>) EXCEPT
        !.tiles = <<Tile(105, "air", <<0, 256>>)>>,
        !.objects = <<Actor(11, "ghost", <<30, 300>>, <<0, 0>>)>>]

\* the worlds that are saved
WorldInputs ==
    {<<>>,
     add_chunk(<<>>, ChunkA),
     add_chunk(add_chunk(<<>>, ChunkA), ChunkB),
     add_chunk(add_chunk(add_chunk(<<>>, ChunkA), ChunkB), ChunkFar),
     add_chunk(add_chunk(<<>>, ChunkHalf), ChunkB),
     add_chunk(add_chunk(add_chunk(<<>>, ChunkA), ChunkB), ChunkGhost)}

\* the orders in which read_dir may list the files
Orders(S) == {order \in [1..Cardinality(S) -> S] : {order[k] : k \in 1..Cardinality(S)} = S}

StoreInit ==
    /\ WorldInit
    /\ subject = <<>>
    /\ record = <<>>
    /\ restored = <<>>
    /\ NothingSaved
    /\ NothingCreated

\* the world to save has been built
BuildWorld ==
    /\ chunks = <<>>
    /\ result = <<>>
    /\ chunks' \in WorldInputs \ {<<>>}
    /\ UNCHANGED <<visible_chunks, pc, camera_pos, screen_size, dt, movements,
                   vi, taken, updates, hist>>
    /\ UNCHANGED <<object_registry, tile_registry, subject, record, restored>>
    /\ UNCHANGED registryVars
    /\ UNCHANGED biomeVars
    /\ UNCHANGED handlerVars
    /\ UNCHANGED storeVars

\* world.save_world(save_dir), at most one of whose calls fails
SaveWorld ==
    /\ \E failing \in {{}} \cup {{c} : c \in SaveCalls(chunks)}, first \in SUBSET DOMAIN chunks :
          LET res == save_world(save_dir, chunks, failing, first)
          IN  /\ save_dir' = res.disk
              /\ result' = <<[op |-> "save_world", ok |-> res.ok, read |-> save_dir]>>
              /\ io_failures' = res.failed
    /\ UNCHANGED <<object_registry, tile_registry, subject, record, restored>>
    /\ UNCHANGED registryVars
    /\ UNCHANGED biomeVars
    /\ UNCHANGED handlerVars
    /\ UNCHANGED worldVars

\* a file of the directory is overwritten with a text that is not JSON
CorruptFile ==
    /\ \/ /\ save_dir.meta \notin {<<>>, <<Garbage>>}
          /\ save_dir' = [save_dir EXCEPT !.meta = <<Garbage>>]
       \/ \E n \in DOMAIN save_dir.files :
             /\ save_dir.files[n] # Garbage
             /\ save_dir' = [save_dir EXCEPT !.files[n] = Garbage]
    /\ UNCHANGED <<result, io_failures>>
    /\ UNCHANGED <<object_registry, tile_registry, subject, record, restored>>
    /\ UNCHANGED registryVars
    /\ UNCHANGED biomeVars
    /\ UNCHANGED handlerVars
    /\ UNCHANGED worldVars

\* World::load_world(save_dir, tile_registry, object_registry, biome_registry),
\* any of whose calls may fail
LoadWorld ==
    /\ \E unreadable \in SUBSET DOMAIN save_dir.files,
          others \in SUBSET {[op |-> "read_to_string", path |-> WorldJson],
                             [op |-> "read_dir", path |-> ChunksDir]},
          order \in Orders(DOMAIN save_dir.files) :
          LET failing == others \cup {[op |-> "read_to_string", path |-> n] : n \in unreadable}
              res == load_world(save_dir, tile_registry, object_registry, failing, order)
          IN  /\ result' = <<IF res.ok
                              THEN [op |-> "load_world", ok |-> TRUE, read |-> save_dir,
                                    value |-> res.value]
                              ELSE [op |-> "load_world", ok |-> FALSE, read |-> save_dir]>>
              /\ io_failures' = res.failed
    /\ UNCHANGED save_dir
    /\ UNCHANGED <<object_registry, tile_registry, subject, record, restored>>
    /\ UNCHANGED registryVars
    /\ UNCHANGED biomeVars
    /\ UNCHANGED handlerVars
    /\ UNCHANGED worldVars

StoreNext ==
    \/ BuildWorld
    \/ SaveWorld
    \/ CorruptFile
    \/ LoadWorld

StoreSpec == StoreInit /\ [][StoreNext]_vars

(***************************************************************************)
(* The tile and actor registries                                           *)
(***************************************************************************)
MaxRegisters == 2
MaxInstances == 2

\* a variant of register in which the first registration of a tag wins
register_keeping(registry, proto) == registry @@ (proto.tag :> proto)

\* ObjectRegistry::register and TileRegistry::register:
\* prototypes.insert(proto.get_type_tag().to_string(), Box::new(proto))
register(registry, proto) == (proto.tag :> proto) @@ registry

\* A Box is a reference: cell n of the heap, or (cell 0) the box the
\* registry holds under the tag
\* a variant of clone_box that hands out the registry's own box
clone_box_sharing(kind, tag, proto, mem) ==
    [ref |-> [kind |-> kind, tag |-> tag, cell |-> 0], mem |-> mem]

\* clone_box of the example types: Box::new(self.clone())
clone_box(kind, tag, proto, mem) ==
    [ref |-> [kind |-> kind, tag |-> tag, cell |-> Len(mem) + 1], mem |-> Append(mem, proto)]

\* ObjectRegistry::create_object_by_id and TileRegistry::create_tile_by_id
create_object_by_id(registry, type_tag, mem) ==
    IF type_tag \notin DOMAIN registry
    THEN [some |-> FALSE, mem |-> mem]
    ELSE LET box == clone_box("object", type_tag, registry[type_tag], mem)
         IN  [some |-> TRUE, ref |-> box.ref, mem |-> box.mem]

create_tile_by_id(registry, type_tag, mem) ==
    IF type_tag \notin DOMAIN registry
    THEN [some |-> FALSE, mem |-> mem]
    ELSE LET box == clone_box("tile", type_tag, registry[type_tag], mem)
         IN  [some |-> TRUE, ref |-> box.ref, mem |-> box.mem]

\* the value a box holds
DerefIn(ref, objects_of, tiles_of, mem) ==
    IF ref.cell # 0 THEN mem[ref.cell]
    ELSE IF ref.kind = "object" THEN objects_of[ref.tag] ELSE tiles_of[ref.tag]
Deref(ref) == DerefIn(ref, object_registry, tile_registry, heap)

\* the prototypes handed to register: two of type "mob" in different states,
\* and two of type "air"
ObjectPrototypes ==
    {Actor(0, "mob", <<0, 0>>, <<0, 0>>), Actor(0, "mob", <<5, 5>>, <<1, 0>>),
     Actor(0, "crate", <<0, 0>>, <<0, 0>>)}
TilePrototypes == {Tile(0, "air", <<0, 0>>), Tile(0, "air", <<16, 16>>), Tile(0, "stone", <<0, 0>>)}
\* the tags asked for, and the texts handed to deserialize
ObjectTags == {"mob", "crate", "ghost"}
TileTags == {"air", "stone", "lava"}
ObjectTexts == {serialize_object(Actor(1, tag, <<250, 100>>, <<0, 0>>)) : tag \in ObjectTags} \cup {Garbage}
TileTexts == {serialize_tile(Tile(1, tag, <<32, 48>>)) : tag \in TileTags} \cup {Garbage}
\* the arguments of the setters called on an instance
NewPos == <<7, 7>>
NewSize == <<8, 24>>
NewVelocity == <<0, 3>>

\* no world is running
IdleWorld ==
    /\ chunks = <<>>
    /\ visible_chunks = <<>>
    /\ pc = "idle"
    /\ camera_pos = <<0, 0>>
    /\ screen_size = <<0, 0>>
    /\ dt = 0
    /\ movements = <<>>
    /\ vi = 1
    /\ taken = <<>>
    /\ updates = 0
    /\ hist = EmptyHist

\* ObjectRegistry::new(), TileRegistry::new()
RegistryInit ==
    /\ IdleWorld
    /\ object_registry = <<>>
    /\ tile_registry = <<>>
    /\ biome_registry = <<>>
    /\ found = <<>>
    /\ subject = <<>>
    /\ record = <<>>
    /\ restored = <<>>
    /\ NothingSaved
    /\ NothingCreated

\* object_registry.register(proto)
RegisterObject ==
    /\ Len(registered) < MaxRegisters
    /\ \E proto \in ObjectPrototypes :
          /\ object_registry' = register(object_registry, proto)
          /\ registered' = Append(registered, [kind |-> "object", proto |-> proto])
    /\ record' = <<>>
    /\ restored' = <<>>
    /\ created' = <<>>
    /\ UNCHANGED <<tile_registry, subject, heap, instances>>
    /\ UNCHANGED storeVars
    /\ UNCHANGED biomeVars
    /\ UNCHANGED handlerVars
    /\ UNCHANGED worldVars

\* tile_registry.register(proto)
RegisterTile ==
    /\ Len(registered) < MaxRegisters
    /\ \E proto \in TilePrototypes :
          /\ tile_registry' = register(tile_registry, proto)
          /\ registered' = Append(registered, [kind |-> "tile", proto |-> proto])
    /\ record' = <<>>
    /\ restored' = <<>>
    /\ created' = <<>>
    /\ UNCHANGED <<object_registry, subject, heap, instances>>
    /\ UNCHANGED storeVars
    /\ UNCHANGED biomeVars
    /\ UNCHANGED handlerVars
    /\ UNCHANGED worldVars

\* object_registry.create_object_by_id(tag); the caller reads the box and drops it
CreateObjectById ==
    /\ \E tag \in ObjectTags :
          LET res == create_object_by_id(object_registry, tag, heap)
          IN  created' = <<IF res.some
                            THEN [kind |-> "object", tag |-> tag, some |-> TRUE,
                                  value |-> DerefIn(res.ref, object_registry, tile_registry, res.mem)]
                            ELSE [kind |-> "object", tag |-> tag, some |-> FALSE]>>
    /\ UNCHANGED <<heap, instances>>
    /\ record' = <<>>
    /\ restored' = <<>>
    /\ UNCHANGED <<object_registry, tile_registry, subject, registered>>
    /\ UNCHANGED storeVars
    /\ UNCHANGED biomeVars
    /\ UNCHANGED handlerVars
    /\ UNCHANGED worldVars

\* tile_registry.create_tile_by_id(tag); the caller reads the box and drops it
CreateTileById ==
    /\ \E tag \in TileTags :
          LET res == create_tile_by_id(tile_registry, tag, heap)
          IN  created' = <<IF res.some
                            THEN [kind |-> "tile", tag |-> tag, some |-> TRUE,
                                  value |-> DerefIn(res.ref, object_registry, tile_registry, res.mem)]
                            ELSE [kind |-> "tile", tag |-> tag, some |-> FALSE]>>
    /\ UNCHANGED <<heap, instances>>
    /\ record' = <<>>
    /\ restored' = <<>>
    /\ UNCHANGED <<object_registry, tile_registry, subject, registered>>
    /\ UNCHANGED storeVars
    /\ UNCHANGED biomeVars
    /\ UNCHANGED handlerVars
    /\ UNCHANGED worldVars

\* generate_chunk of the example: object_registry.create_object_by_id(tag), the
\* box kept when it is Some
SpawnObject ==
    /\ Len(instances) < MaxInstances
    /\ \E tag \in ObjectTags :
          LET res == create_object_by_id(object_registry, tag, heap)
          IN  /\ heap' = res.mem
              /\ created' = <<IF res.some
                               THEN [kind |-> "object", tag |-> tag, some |-> TRUE, ref |-> res.ref,
                                     value |-> DerefIn(res.ref, object_registry, tile_registry, res.mem)]
                               ELSE [kind |-> "object", tag |-> tag, some |-> FALSE]>>
              /\ instances' = IF res.some THEN Append(instances, res.ref) ELSE instances
    /\ record' = <<>>
    /\ restored' = <<>>
    /\ UNCHANGED <<object_registry, tile_registry, subject, registered>>
    /\ UNCHANGED storeVars
    /\ UNCHANGED biomeVars
    /\ UNCHANGED handlerVars
    /\ UNCHANGED worldVars

\* generate_chunk of the example: tile_registry.create_tile_by_id(tag), the box
\* kept when it is Some
SpawnTile ==
    /\ Len(instances) < MaxInstances
    /\ \E tag \in TileTags :
          LET res == create_tile_by_id(tile_registry, tag, heap)
          IN  /\ heap' = res.mem
              /\ created' = <<IF res.some
                               THEN [kind |-> "tile", tag |-> tag, some |-> TRUE, ref |-> res.ref,
                                     value |-> DerefIn(res.ref, object_registry, tile_registry, res.mem)]
                               ELSE [kind |-> "tile", tag |-> tag, some |-> FALSE]>>
              /\ instances' = IF res.some THEN Append(instances, res.ref) ELSE instances
    /\ record' = <<>>
    /\ restored' = <<>>
    /\ UNCHANGED <<object_registry, tile_registry, subject, registered>>
    /\ UNCHANGED storeVars
    /\ UNCHANGED biomeVars
    /\ UNCHANGED handlerVars
    /\ UNCHANGED worldVars

\* object_registry.deserialize_object(&text)
DeserializeObject ==
    /\ \E text \in ObjectTexts :
          /\ record' = <<text>>
          /\ restored' = <<deserialize_object(object_registry, text)>>
    /\ created' = <<>>
    /\ UNCHANGED <<object_registry, tile_registry, subject, heap, instances, registered>>
    /\ UNCHANGED storeVars
    /\ UNCHANGED biomeVars
    /\ UNCHANGED handlerVars
    /\ UNCHANGED worldVars

\* tile_registry.deserialize_tile(&text)
DeserializeTile ==
    /\ \E text \in TileTexts :
          /\ record' = <<text>>
          /\ restored' = <<deserialize_tile(tile_registry, text)>>
    /\ created' = <<>>
    /\ UNCHANGED <<object_registry, tile_registry, subject, heap, instances, registered>>
    /\ UNCHANGED storeVars
    /\ UNCHANGED biomeVars
    /\ UNCHANGED handlerVars
    /\ UNCHANGED worldVars

\* the write of a setter through a box
StoreThrough(ref, value) ==
    /\ heap' = IF ref.cell # 0 THEN [heap EXCEPT ![ref.cell] = value] ELSE heap
    /\ object_registry' = IF ref.cell = 0 /\ ref.kind = "object"
                          THEN [object_registry EXCEPT ![ref.tag] = value]
                          ELSE object_registry
    /\ tile_registry' = IF ref.cell = 0 /\ ref.kind = "tile"
                        THEN [tile_registry EXCEPT ![ref.tag] = value]
                        ELSE tile_registry

\* instance.set_pos(p)
SetPos ==
    /\ \E k \in 1..Len(instances) :
          /\ Deref(instances[k]).pos # NewPos
          /\ StoreThrough(instances[k], set_pos(Deref(instances[k]), NewPos))
    /\ UNCHANGED <<subject, record, restored, instances, created, registered>>
    /\ UNCHANGED storeVars
    /\ UNCHANGED biomeVars
    /\ UNCHANGED handlerVars
    /\ UNCHANGED worldVars

\* instance.set_size(s)
SetSize ==
    /\ \E k \in 1..Len(instances) :
          /\ Deref(instances[k]).size # NewSize
          /\ StoreThrough(instances[k], set_size(Deref(instances[k]), NewSize))
    /\ UNCHANGED <<subject, record, restored, instances, created, registered>>
    /\ UNCHANGED storeVars
    /\ UNCHANGED biomeVars
    /\ UNCHANGED handlerVars
    /\ UNCHANGED worldVars

\* instance.set_velocity(v), of an actor
SetVelocity ==
    /\ \E k \in 1..Len(instances) :
          /\ instances[k].kind = "object"
          /\ Deref(instances[k]).vel # NewVelocity
          /\ StoreThrough(instances[k], set_velocity(Deref(instances[k]), NewVelocity))
    /\ UNCHANGED <<subject, record, restored, instances, created, registered>>
    /\ UNCHANGED storeVars
    /\ UNCHANGED biomeVars
    /\ UNCHANGED handlerVars
    /\ UNCHANGED worldVars

RegistryNext ==
    \/ RegisterObject
    \/ RegisterTile
    \/ CreateObjectById
    \/ CreateTileById
    \/ DeserializeObject
    \/ DeserializeTile

RegistrySpec == RegistryInit /\ [][RegistryNext]_vars

\* the instances made from the registries of the example, and the setters
\* called on them
InstanceNext ==
    \/ SpawnObject
    \/ SpawnTile
    \/ SetPos
    \/ SetSize
    \/ SetVelocity

InstanceSpec == Init /\ [][InstanceNext]_vars

(***************************************************************************)
(* The biome registry                                                      *)
(***************************************************************************)
MaxBiomes == 3

\* Biome::is_suitable of four implementations: Plains of the example, which
\* suits every place; one that suits dry places; one that suits high
\* places; one that suits none
is_suitable(biome, height, moisture, temperature) ==
    CASE biome = "plains" -> TRUE
      [] biome = "desert" -> moisture = 0
      [] biome = "peak" -> height = 1
      [] OTHER -> FALSE

\* BiomeRegistry::register: prototypes.push(Box::new(biome))
register_biome(prototypes, biome) == Append(prototypes, biome)

\* a variant of find_biome that returns the suitable biome registered last
find_biome_latest(prototypes, height, moisture, temperature) ==
    LET suitable == {k \in 1..Len(prototypes) :
                        is_suitable(prototypes[k], height, moisture, temperature)}
    IN  IF suitable = {} THEN [some |-> FALSE]
        ELSE LET k == CHOOSE k \in suitable : \A j \in suitable : j <= k
             IN  [some |-> TRUE, at |-> k, value |-> prototypes[k]]

\* the loop of find_biome from position k on: a reference to the first
\* suitable box (its position and the biome in it), or None
RECURSIVE FindFrom(_, _, _, _, _)
FindFrom(prototypes, k, height, moisture, temperature) ==
    IF k > Len(prototypes) THEN [some |-> FALSE]
    ELSE IF is_suitable(prototypes[k], height, moisture, temperature)
    THEN [some |-> TRUE, at |-> k, value |-> prototypes[k]]
    ELSE FindFrom(prototypes, k + 1, height, moisture, temperature)

\* BiomeRegistry::find_biome
find_biome(prototypes, height, moisture, temperature) ==
    FindFrom(prototypes, 1, height, moisture, temperature)

BiomeInputs == {"plains", "desert", "peak", "void"}
\* (height, moisture, temperature) of the places asked about
ClimateInputs == {<<0, 0, 0>>, <<1, 0, 0>>, <<0, 1, 1>>, <<1, 1, 0>>}

\* BiomeRegistry::new()
BiomeInit ==
    /\ IdleWorld
    /\ object_registry = <<>>
    /\ tile_registry = <<>>
    /\ biome_registry = <<>>
    /\ found = <<>>
    /\ subject = <<>>
    /\ record = <<>>
    /\ restored = <<>>
    /\ NothingSaved
    /\ NothingCreated

\* biome_registry.register(biome)
RegisterBiome ==
    /\ Len(biome_registry) < MaxBiomes
    /\ \E biome \in BiomeInputs : biome_registry' = register_biome(biome_registry, biome)
    /\ found' = <<>>
    /\ UNCHANGED <<object_registry, tile_registry, subject, record, restored>>
    /\ UNCHANGED registryVars
    /\ UNCHANGED storeVars
    /\ UNCHANGED handlerVars
    /\ UNCHANGED worldVars

\* biome_registry.find_biome(height, moisture, temperature)
FindBiome ==
    /\ \E place \in ClimateInputs :
          found' = <<[place |-> place,
                      biome |-> find_biome(biome_registry, place[1], place[2], place[3])]>>
    /\ UNCHANGED biome_registry
    /\ UNCHANGED <<object_registry, tile_registry, subject, record, restored>>
    /\ UNCHANGED registryVars
    /\ UNCHANGED storeVars
    /\ UNCHANGED handlerVars
    /\ UNCHANGED worldVars

BiomeNext ==
    \/ RegisterBiome
    \/ FindBiome

BiomeSpec == BiomeInit /\ [][BiomeNext]_vars

(***************************************************************************)
(* The default collision handler on its own                                *)
(***************************************************************************)
\* the receiver: of the type with a fixed reported size and of a type that
\* reports its field, at rest and moving on both axes
ReceiverInputs ==
    {set_size(Actor(1, tag, <<100, 100>>, vel), sz) :
        tag \in {"mob", "crate"}, vel \in {<<3, -2>>, <<0, 0>>}, sz \in SizeInputs}
\* the argument: placed around the receiver so that the shrunk boxes overlap
\* more on one axis, equally on both, touch, or are apart
OffsetInputs ==
    {<<0, 0>>, <<10, 0>>, <<0, 10>>, <<10, 10>>, <<13, 3>>, <<3, 13>>, <<14, 0>>,
     <<15, 0>>, <<-10, -4>>, <<-4, -10>>, <<40, 40>>, <<6, 20>>}
ArgumentInputs ==
    {set_size(Actor(2, "crate", VAdd(<<100, 100>>, off), <<-1, 1>>), sz) :
        off \in OffsetInputs, sz \in SizeInputs}

CollisionInit ==
    /\ IdleWorld
    /\ object_registry = <<>>
    /\ tile_registry = <<>>
    /\ biome_registry = <<>>
    /\ found = <<>>
    /\ subject = <<>>
    /\ record = <<>>
    /\ restored = <<>>
    /\ NothingSaved
    /\ heap = <<>>
    /\ instances = <<>>
    /\ created = <<>>
    /\ registered = <<>>
    /\ colliding \in {<<[self |-> a, other |-> b]>> : a \in ReceiverInputs, b \in ArgumentInputs}
    /\ collided = <<>>

\* self.collision(other): the handler writes the receiver's velocity and
\* nothing of `other`
Collide ==
    /\ collided = <<>>
    /\ collided' = <<[self |-> collision(colliding[1].self, colliding[1].other),
                      other |-> colliding[1].other]>>
    /\ UNCHANGED colliding
    /\ UNCHANGED <<object_registry, tile_registry, subject, record, restored>>
    /\ UNCHANGED registryVars
    /\ UNCHANGED biomeVars
    /\ UNCHANGED storeVars
    /\ UNCHANGED worldVars

\* the second callback of the pair loop: obj2.collision(obj1), with obj1 as
\* the first callback left it
CollideBack ==
    /\ collided # <<>>
    /\ colliding[1].self.id = 1
    /\ colliding' = <<[self |-> collided[1].other, other |-> collided[1].self]>>
    /\ collided' = <<>>
    /\ UNCHANGED <<object_registry, tile_registry, subject, record, restored>>
    /\ UNCHANGED registryVars
    /\ UNCHANGED biomeVars
    /\ UNCHANGED storeVars
    /\ UNCHANGED worldVars

CollisionNext ==
    \/ Collide
    \/ CollideBack

CollisionSpec == CollisionInit /\ [][CollisionNext]_vars


(***************************************************************************)
(* Observation helpers                                                     *)
(***************************************************************************)
Range(s) == {s[k] : k \in 1..Len(s)}
\* the actors a map holds
ActorsOf(chs) == UNION {Range(chs[K].objects) : K \in DOMAIN chs}
\* the chunk keys under which a map holds the actor with this id
KeysHolding(chs, id) ==
    {K \in DOMAIN chs : \E k \in 1..Len(chs[K].objects) : chs[K].objects[k].id = id}
\* pos lies in the square of the chunk coordinate K
InSquareOf(pos, K) ==
    /\ K[1] * CHUNK_PIXELS <= pos[1] /\ pos[1] < (K[1] + 1) * CHUNK_PIXELS
    /\ K[2] * CHUNK_PIXELS <= pos[2] /\ pos[2] < (K[2] + 1) * CHUNK_PIXELS
\* every actor of chunk K of the map lies in the square of K
Consistent(chs, K) ==
    \A k \in 1..Len(chs[K].objects) : InSquareOf(chs[K].objects[k].pos, K)
VisibleLoaded == Range(visible_chunks) \cap DOMAIN chunks
\* the moves of the running update that removed an actor
Moved == {e \in Range(hist.applied) : e.id # 0}

C2_MovesAppliedDescendingAndExact ==
    \A n \in 1..Len(hist.applied) :
        LET e == hist.applied[n]
        IN  /\ e.id # 0
            /\ e.id = hist.scanned[e.mv[1]].objects[e.mv[3] + 1].id
            /\ \A m \in 1..(n - 1) :
                  hist.applied[m].mv[1] = e.mv[1] => hist.applied[m].mv[3] > e.mv[3]

\* C2 witness: two actors of one chunk were moved in one update, the one with
\* the lower index behind one that stayed
C2_Witness ==
    \E m, n \in 1..Len(hist.applied) :
        /\ m < n
        /\ hist.applied[m].mv[1] = hist.applied[n].mv[1]
        /\ hist.applied[m].mv[3] > hist.applied[n].mv[3] + 1
        /\ hist.applied[n].id # 0

(***************************************************************************)
(* C3                                                                      *)
(***************************************************************************)
\* the actors of a list that no move of the running update names
Stayers(objs) ==
    LET Stays(o) == \A e \in Moved : e.id # o.id
    IN  SelectSeq(objs, Stays)

\* C3: when the migration step has completed, an actor whose destination
\* chunk is absent is stored in no chunk; no chunk was created or removed; the
\* chunks keep their tiles and, in order and unchanged, every actor that no
\* move names; an actor moved to a loaded chunk is held by that chunk alone.
C3_MissingDestinationDropsOnlyThatActor ==
    pc = "collide" =>
        /\ DOMAIN chunks = DOMAIN hist.scanned
        /\ \A e \in Moved :
              IF e.mv[2] \in DOMAIN hist.scanned
              THEN /\ KeysHolding(chunks, e.id) = {e.mv[2]}
                   /\ hist.scanned[e.mv[1]].objects[e.mv[3] + 1] \in Range(chunks[e.mv[2]].objects)
              ELSE KeysHolding(chunks, e.id) = {}
        /\ \A K \in DOMAIN chunks :
              /\ chunks[K].tiles = hist.scanned[K].tiles
              /\ chunks[K].pos = hist.scanned[K].pos
              /\ Stayers(chunks[K].objects) = Stayers(hist.scanned[K].objects)

\* C3 witness: the migration step has just dropped an actor whose destination
\* is not loaded, while another actor of the same chunk stayed
C3_Witness ==
    /\ pc = "collide"
    /\ \E e \in Moved :
          /\ e.mv[2] \notin DOMAIN chunks
          /\ KeysHolding(hist.scanned, e.id) = {e.mv[1]}
          /\ Stayers(chunks[e.mv[1]].objects) # <<>>

(***************************************************************************)
(* C4                                                                      *)
(***************************************************************************)
\* the number of callbacks of an examined pair that `self` received with `other`
CallsTo(e, self, other) ==
    Cardinality({k \in 1..Len(e.calls) : e.calls[k].self = self /\ e.calls[k].other = other})

\* C4: every unordered pair of drained actors is examined once; a pair for
\* which will_collide and approaching both hold when it is examined gives each
\* of the two exactly one callback with the other as argument; a pair for
\* which either fails gives none.
C4_BothCalledOrNeither ==
    /\ \A i, j \in 1..Len(hist.drained) :
          i < j =>
            Cardinality({n \in 1..Len(hist.exams) :
                            /\ hist.exams[n].a.id = hist.drained[i].id
                            /\ hist.exams[n].b.id = hist.drained[j].id}) = 1
    /\ Len(hist.exams) * 2 = Len(hist.drained) * (Len(hist.drained) - 1)
    /\ \A n \in 1..Len(hist.exams) :
          LET e == hist.exams[n]
          IN  IF will_collide(e.a, e.b) /\ moving_towards_each_other(e.a, e.b)
              THEN /\ Len(e.calls) = 2
                   /\ CallsTo(e, e.a.id, e.b.id) = 1
                   /\ CallsTo(e, e.b.id, e.a.id) = 1
              ELSE e.calls = <<>>

\* C4 witness: one pass examined a pair that met both conditions and a pair
\* that did not
C4_Witness ==
    /\ \E n \in 1..Len(hist.exams) : Len(hist.exams[n].calls) = 2
    /\ \E n \in 1..Len(hist.exams) :
          /\ hist.exams[n].calls = <<>>
          /\ will_collide(hist.exams[n].a, hist.exams[n].b)


(***************************************************************************)
(* C5                                                                      *)
(***************************************************************************)
\* the state an actor had when the collision pass drained it
StartOf(id) == CHOOSE o \in Range(hist.drained) : o.id = id
\* the state an examined pair left the actor with this id in
LeftBy(e, id) ==
    IF Len(e.calls) < 2 THEN (IF e.a.id = id THEN e.a ELSE e.b)
    ELSE IF e.a.id = id THEN collision(e.a, e.b)
         ELSE collision(e.b, collision(e.a, e.b))
\* the examinations before the n-th that involved the actor with this id
Earlier(n, id) ==
    {m \in 1..(n - 1) : hist.exams[m].a.id = id \/ hist.exams[m].b.id = id}
\* the state in which the n-th examination should find the actor
ExpectedAt(n, id) ==
    IF Earlier(n, id) = {} THEN StartOf(id)
    ELSE LeftBy(hist.exams[CHOOSE m \in Earlier(n, id) : \A k \in Earlier(n, id) : k <= m], id)

\* C5 (as claimed): every pair is tested on, and every callback is handed,
\* the states the actors had before any callback of the pass ran.
C5_CallbacksSeePassStartStates ==
    \A n \in 1..Len(hist.exams) :
        LET e == hist.exams[n]
        IN  /\ e.a = StartOf(e.a.id)
            /\ e.b = StartOf(e.b.id)
            /\ \A k \in 1..Len(e.calls) : e.calls[k].saw = StartOf(e.calls[k].other)

\* C5 (amended): a pair is tested on the states the earlier pairs of the pass
\* left; the first callback of a pair (to i) is handed j as tested, the second
\* (to j) is handed i as i's own callback left it; the default handler changes
\* velocities only, so every callback sees the other's position and size of
\* the start of the pass.
C5_CallbacksSeeCurrentStates ==
    \A n \in 1..Len(hist.exams) :
        LET e == hist.exams[n]
        IN  /\ e.a = ExpectedAt(n, e.a.id)
            /\ e.b = ExpectedAt(n, e.b.id)
            /\ Len(e.calls) = 2 =>
                  /\ e.calls[1].saw = e.b
                  /\ e.calls[2].saw = collision(e.a, e.b)
            /\ \A k \in 1..Len(e.calls) :
                  [e.calls[k].saw EXCEPT !.vel = <<0, 0>>]
                      = [StartOf(e.calls[k].other) EXCEPT !.vel = <<0, 0>>]

\* C5 witness: a callback was handed an actor whose velocity its own callback
\* had just changed, and a later pair was tested on that changed state
C5_Witness ==
    \E n \in 1..Len(hist.exams) :
        /\ Len(hist.exams[n].calls) = 2
        /\ hist.exams[n].calls[2].saw # StartOf(hist.exams[n].a.id)
        /\ \E m \in (n + 1)..Len(hist.exams) :
              /\ hist.exams[m].a.id = hist.exams[n].a.id
              /\ hist.exams[m].a # StartOf(hist.exams[m].a.id)

(***************************************************************************)
(* C6                                                                      *)
(***************************************************************************)
\* a on the left, b two tiles to its right at the same height, each one tile
\* in size, closing at two tiles per tick each
HeadOn(a, b) ==
    /\ get_size(a) = <<TILE_SIZE, TILE_SIZE>>
    /\ get_size(b) = <<TILE_SIZE, TILE_SIZE>>
    /\ a.pos[2] = b.pos[2]
    /\ b.pos[1] = a.pos[1] + 2 * TILE_SIZE
    /\ a.vel[1] = 2 * TILE_SIZE
    /\ b.vel[1] = -2 * TILE_SIZE

\* the actors the visible loaded chunks held when the running update was called
VisibleAtStart ==
    UNION {Range(hist.start[K].objects) : K \in Range(visible_chunks) \cap DOMAIN hist.start}

\* C6 (as claimed): a head-on pair in visible loaded chunks has, once the
\* update has returned, x-velocity 0 and its y-velocity unchanged.
C6_HeadOnPairStops ==
    (pc = "idle" /\ updates > 0) =>
        \A a, b \in VisibleAtStart :
            HeadOn(a, b) =>
                \A o \in ActorsOf(chunks) :
                    /\ o.id = a.id => o.vel = <<0, a.vel[2]>>
                    /\ o.id = b.id => o.vel = <<0, b.vel[2]>>

(***************************************************************************)
(* C7                                                                      *)
(***************************************************************************)
\* the box an actor sweeps in one tick, from pos to pos + velocity
SweptMin(o) == <<Min(o.pos[1], o.pos[1] + o.vel[1]), Min(o.pos[2], o.pos[2] + o.vel[2])>>
SweptMax(o) ==
    VAdd(<<Max(o.pos[1], o.pos[1] + o.vel[1]), Max(o.pos[2], o.pos[2] + o.vel[2])>>, get_size(o))
SweptOverlap(a, b) ==
    /\ SweptMin(a)[1] < SweptMax(b)[1] /\ SweptMax(a)[1] > SweptMin(b)[1]
    /\ SweptMin(a)[2] < SweptMax(b)[2] /\ SweptMax(a)[2] > SweptMin(b)[2]

\* C7 (as claimed): for every pair examined, will_collide holds exactly when
\* the boxes swept from pos to pos + velocity overlap on both axes.
C7_WillCollideIffSweptBoxesOverlap ==
    \A n \in 1..Len(hist.exams) :
        will_collide(hist.exams[n].a, hist.exams[n].b)
            <=> SweptOverlap(hist.exams[n].a, hist.exams[n].b)

(***************************************************************************)
(* C8                                                                      *)
(***************************************************************************)
\* a chunk with the velocities of its actors blanked
WithoutVelocities(chunk) ==
    [chunk EXCEPT !.objects = [k \in 1..Len(chunk.objects) |->
                                  [chunk.objects[k] EXCEPT !.vel = <<0, 0>>]]]

\* the collision pass has just returned
PassReturned == pc = "tick" /\ vi = 1 /\ "collide" \in Range(hist.phases)

\* C8: when the collision pass returns, the map has the keys it had; every
\* chunk of the visible window holds the actors it held, in the same order,
\* changed in velocity at most; every other chunk is as it was.
C8_PassReturnsActorsToTheirChunks ==
    PassReturned =>
        /\ DOMAIN chunks = DOMAIN hist.drained_from
        /\ \A K \in DOMAIN chunks :
              IF K \in Range(visible_chunks)
              THEN WithoutVelocities(chunks[K]) = WithoutVelocities(hist.drained_from[K])
              ELSE chunks[K] = hist.drained_from[K]

\* C8 witness: a pass over two visible chunks with several actors each, and
\* one chunk outside the window, has returned having changed a velocity
C8_Witness ==
    /\ PassReturned
    /\ \E K, L \in VisibleLoaded :
          K # L /\ Len(chunks[K].objects) > 1 /\ Len(chunks[L].objects) > 1
    /\ \E K \in DOMAIN chunks : K \notin Range(visible_chunks) /\ chunks[K].objects # <<>>
    /\ chunks # hist.drained_from

(***************************************************************************)
(* C9                                                                      *)
(***************************************************************************)
IsPrefix(s, t) == Len(s) <= Len(t) /\ \A k \in 1..Len(s) : s[k] = t[k]

\* C9: the phases of one update run in the order window, scan, apply,
\* collision pass, ticks; while a chunk is being ticked, and once anything has
\* been ticked, no move is pending and the collision pass is over.
C9_PhasesInOrder ==
    /\ IsPrefix(hist.phases, <<"visible", "scan", "apply", "collide", "tick">>)
    /\ (pc \in {"chunk_update", "reinsert"} \/ hist.ticks # <<>>) =>
          /\ movements = <<>>
          /\ "apply" \in Range(hist.phases)
          /\ "collide" \in Range(hist.phases)

\* C9 witness: an update that moved an actor and made a collision callback
\* has ticked an actor and a tile
C9_Witness ==
    /\ Moved # {}
    /\ \E n \in 1..Len(hist.exams) : hist.exams[n].calls # <<>>
    /\ \E k \in 1..Len(hist.ticks) : hist.ticks[k].kind = "object"
    /\ \E k \in 1..Len(hist.ticks) : hist.ticks[k].kind = "tile"

(***************************************************************************)
(* C10                                                                     *)
(***************************************************************************)
Tags == {"mob", "crate", "stone", "air"}
Ids(s) == {s[k].id : k \in 1..Len(s)}

\* while Chunk::update runs for the chunk at visible_chunks[vi], the map has
\* no entry under that key and the world's queries find none of its members
TakenChunkIsOutOfTheMap ==
    pc \in {"chunk_update", "reinsert"} =>
        /\ visible_chunks[vi] \notin DOMAIN chunks
        /\ \A t \in Tags :
              /\ Ids(get_objects_by_type(chunks, visible_chunks, 1, t))
                    \cap Ids(taken[1].objects) = {}
              /\ Ids(get_tiles_by_type(chunks, visible_chunks, 1, t))
                    \cap Ids(taken[1].tiles) = {}

\* the step after Chunk::update puts the updated chunk back under its key
TakenChunkIsPutBack ==
    pc = "reinsert" =>
        /\ visible_chunks[vi] \in DOMAIN chunks'
        /\ chunks'[visible_chunks[vi]] = taken[1]
        /\ DOMAIN chunks' = DOMAIN chunks \cup {visible_chunks[vi]}

\* C10: while Chunk.update runs for key K the map has no entry for K, and
\* when it has finished the chunk is in the map again under K.
C10_ChunkOutOfMapWhileUpdated ==
    [](TakenChunkIsOutOfTheMap) /\ [][TakenChunkIsPutBack]_vars

\* C10 witness: a chunk with actors and tiles is being updated while another
\* visible chunk is in the map
C10_Witness ==
    /\ pc = "reinsert"
    /\ taken[1].objects # <<>>
    /\ taken[1].tiles # <<>>
    /\ hist.ticks # <<>>
    /\ VisibleLoaded # {}

(***************************************************************************)
(* C11                                                                     *)
(***************************************************************************)
\* what makes a chunk the chunk it is: its position, its box and its tiles,
\* which no operation of the world rewrites
SameChunk(c, d) == c.pos = d.pos /\ c.bounds = d.bounds /\ c.tiles = d.tiles

\* the map an operation that ends in this step started from
BeforeOperation == IF pc = "idle" THEN chunks ELSE hist.start

OperationKeepsChunks ==
    pc' = "idle" =>
        /\ DOMAIN BeforeOperation \subseteq DOMAIN chunks'
        /\ \A K \in DOMAIN BeforeOperation : SameChunk(BeforeOperation[K], chunks'[K])
        /\ (pc # "idle" \/ hist'.added = <<>>) => DOMAIN chunks' = DOMAIN BeforeOperation
        /\ (pc = "idle" /\ hist'.added # <<>>) =>
              \A K \in DOMAIN chunks : chunks'[K] = chunks[K]

\* C11: every add_chunk, update and draw leaves each key of the map in the map,
\* holding the same chunk as before; update and draw leave the key set as it
\* was.
C11_NoChunkRemovedOrReplaced == [][OperationKeepsChunks]_vars

\* C11 witness: an update that moved an actor between chunks and ticked has
\* returned, draw has run, and the map holds several chunks
C11_Witness ==
    /\ pc = "idle"
    /\ updates > 0
    /\ hist.drew
    /\ \E e \in Moved : e.mv[2] \in DOMAIN chunks
    /\ hist.ticks # <<>>
    /\ Cardinality(DOMAIN chunks) >= 2
    /\ DOMAIN chunks = DOMAIN hist.start

(***************************************************************************)
(* C12                                                                     *)
(***************************************************************************)
\* C12: add_chunk for a key the map already holds leaves the map as it was
\* (the chunk stored first stays, the new one is discarded); for a new key it
\* adds the chunk under that key and changes nothing else.
C12_AddChunkFirstWriterWins ==
    hist.added # <<>> =>
        LET a == hist.added[1]
            K == chunk_key(a.chunk)
        IN  IF K \in DOMAIN a.before
            THEN a.after = a.before
            ELSE /\ DOMAIN a.after = DOMAIN a.before \cup {K}
                 /\ a.after[K] = a.chunk
                 /\ \A L \in DOMAIN a.before : a.after[L] = a.before[L]

\* C12 witness: add_chunk was called with a chunk whose key the map held for
\* a different chunk with actors and tiles
C12_Witness ==
    /\ hist.added # <<>>
    /\ chunk_key(hist.added[1].chunk) \in DOMAIN hist.added[1].before
    /\ LET first == hist.added[1].before[chunk_key(hist.added[1].chunk)]
       IN  /\ first.pos # hist.added[1].chunk.pos
           /\ first.objects # <<>>
           /\ first.tiles # hist.added[1].chunk.tiles

(***************************************************************************)
(* C13                                                                     *)
(***************************************************************************)
\* floor of a chunk position component w + h/2
FloorOf(c) == c.w
FloorKey(chunk) == <<FloorOf(chunk.pos[1]), FloorOf(chunk.pos[2])>>

\* C13 (as claimed): a chunk that add_chunk stores is stored under the key
\* (floor(pos.x), floor(pos.y)), whatever its position.
C13_AddChunkKeyIsFloorOfPosition ==
    (hist.added # <<>> /\ hist.added[1].after # hist.added[1].before) =>
        /\ FloorKey(hist.added[1].chunk) \in DOMAIN hist.added[1].after
        /\ hist.added[1].after[FloorKey(hist.added[1].chunk)] = hist.added[1].chunk

(***************************************************************************)
(* C14                                                                     *)
(***************************************************************************)
\* the 25 coordinates at most 2 away from K on each axis
Window(K) == {<<K[1] + dx, K[2] + dy>> : dx \in -2..2, dy \in -2..2}

\* C14: once update has recomputed it, the visible-chunk list holds exactly the
\* 25 coordinates of the square of radius 2 around the chunk coordinate that
\* contains the camera, each once, whatever the viewport and the loaded chunks.
C14_VisibleListIsTheWindowOfTheCamera ==
    (updates > 0 \/ pc # "idle") =>
        /\ Len(visible_chunks) = 25
        /\ Cardinality(Range(visible_chunks)) = 25
        /\ \E K \in Range(visible_chunks) :
              /\ InSquareOf(camera_pos, K)
              /\ Range(visible_chunks) = Window(K)

\* C14 witness: update has returned for a camera left of the origin and a
\* zero-area viewport, with loaded and unloaded coordinates in the window
C14_Witness ==
    /\ pc = "idle"
    /\ updates > 0
    /\ hist.phases # <<>>
    /\ camera_pos[1] < 0
    /\ screen_size = <<0, 0>>
    /\ VisibleLoaded # {}
    /\ DOMAIN chunks \ Range(visible_chunks) # {}
    /\ Range(visible_chunks) \ DOMAIN chunks # {}

(***************************************************************************)
(* C15                                                                     *)
(***************************************************************************)
\* the closed intervals [a1, a2] and [b1, b2] have a point in common
ClosedOverlap(a1, a2, b1, b2) == (a1 <= b1 /\ b1 <= a2) \/ (b1 <= a1 /\ a1 <= b2)

\* twice the lower corner of the chunk's box, from its position  w + h/2
BoxLo2(chunk, axis) == (2 * chunk.pos[axis].w + chunk.pos[axis].h) * CHUNK_PIXELS
BoxHi2(chunk, axis) == BoxLo2(chunk, axis) + 2 * CHUNK_PIXELS

\* the chunk's closed box meets the closed viewport rectangle on both axes
\* (all coordinates doubled)
MeetsViewport(chunk) ==
    \A axis \in 1..2 :
        ClosedOverlap(BoxLo2(chunk, axis), BoxHi2(chunk, axis),
                      2 * camera_pos[axis] - screen_size[axis],
                      2 * camera_pos[axis] + screen_size[axis])

CameraInBox(chunk) ==
    \A axis \in 1..2 :
        BoxLo2(chunk, axis) <= 2 * camera_pos[axis] /\ 2 * camera_pos[axis] <= BoxHi2(chunk, axis)

\* the chunks of the world: those in the map, and the one being updated
AllChunks == {chunks[K] : K \in DOMAIN chunks} \cup Range(taken)

\* C15: is_visible is true exactly when the chunk's closed box meets the closed
\* viewport rectangle on both axes; with a zero-area viewport, exactly when
\* the camera lies in the chunk's box or on its edge.
C15_IsVisibleIffBoxMeetsViewport ==
    \A c \in AllChunks :
        /\ is_visible(c, camera_pos, screen_size) <=> MeetsViewport(c)
        /\ screen_size = <<0, 0>> =>
              (is_visible(c, camera_pos, screen_size) <=> CameraInBox(c))

\* C15 witness: with a zero-area viewport, Chunk::update has ticked the actors
\* of a chunk whose right edge the camera lies on, while the map holds a chunk
\* the camera is outside of
C15_Witness ==
    /\ pc = "reinsert"
    /\ screen_size = <<0, 0>>
    /\ BoxHi2(taken[1], 1) = 2 * camera_pos[1]
    /\ is_visible(hist.chunk_before[1], camera_pos, screen_size)
    /\ hist.chunk_ticks # <<>>
    /\ \E K \in DOMAIN chunks : ~is_visible(chunks[K], camera_pos, screen_size)

(***************************************************************************)
(* C16                                                                     *)
(***************************************************************************)
\* Chunk::update has just run on hist.chunk_before[1] and left taken[1]
ChunkUpdated == pc = "reinsert"

\* C16: Chunk.update on a chunk that is not visible ticks nothing and leaves
\* the chunk (tiles, actors, visible-tile list, active-actor list) as it was.
C16_UpdateOfInvisibleChunkIsNoOp ==
    (ChunkUpdated /\ ~is_visible(hist.chunk_before[1], camera_pos, screen_size)) =>
        /\ taken[1] = hist.chunk_before[1]
        /\ hist.chunk_ticks = <<>>

\* C16 witness: Chunk::update has run on an invisible chunk that holds a mob
\* and whose lists, left by an earlier frame, are not empty
C16_Witness ==
    /\ ChunkUpdated
    /\ ~is_visible(hist.chunk_before[1], camera_pos, screen_size)
    /\ taken[1].active_objects # <<>>
    /\ taken[1].visible_tiles # <<>>
    /\ \E k \in 1..Len(taken[1].active_objects) :
          /\ taken[1].active_objects[k] < Len(taken[1].objects)
          /\ taken[1].objects[taken[1].active_objects[k] + 1].tag = "mob"

(***************************************************************************)
(* C17                                                                     *)
(***************************************************************************)
\* s is strictly ascending
Ascending(s) == \A k \in 1..(Len(s) - 1) : s[k] < s[k + 1]

\* C17: Chunk.update on a visible chunk ticks the actors its recomputed
\* active list names, in ascending index order, each in the state the chunk
\* had when the lists were recomputed, and then the tiles its recomputed
\* visible-tile list names; no tile tick precedes an actor tick.
C17_ListsThenActorsThenTiles ==
    (ChunkUpdated /\ is_visible(hist.chunk_before[1], camera_pos, screen_size)) =>
        LET before == hist.chunk_before[1]
            after == taken[1]
            log == hist.chunk_ticks
            n == Len(after.active_objects)
        IN  /\ Ascending(after.active_objects)
            /\ Len(log) = n + Len(after.visible_tiles)
            /\ \A k \in 1..n :
                  /\ log[k] = [kind |-> "object", id |-> before.objects[after.active_objects[k] + 1].id]
                  /\ after.objects[after.active_objects[k] + 1]
                        = tick(before.objects[after.active_objects[k] + 1], dt)
            /\ \A k \in 1..Len(after.visible_tiles) :
                  log[n + k] = [kind |-> "tile", id |-> before.tiles[after.visible_tiles[k] + 1].id]
            /\ \A i \in 1..Len(before.objects) :
                  (i - 1) \notin Range(after.active_objects) => after.objects[i] = before.objects[i]

\* C17 witness: Chunk::update has ticked two actors and a tile of a chunk
\* whose lists differ from the ones an earlier frame left
C17_Witness ==
    /\ ChunkUpdated
    /\ is_visible(hist.chunk_before[1], camera_pos, screen_size)
    /\ Len(taken[1].active_objects) >= 2
    /\ taken[1].visible_tiles # <<>>
    /\ hist.chunk_before[1].active_objects # <<>>
    /\ hist.chunk_before[1].active_objects # taken[1].active_objects
    /\ taken[1].objects # hist.chunk_before[1].objects

(***************************************************************************)
(* C18                                                                     *)
(***************************************************************************)
\* pos lies in the viewport widened by `margin` on every side, bounds included
\* (coordinates doubled)
InWidenedViewport(pos, margin) ==
    \A axis \in 1..2 :
        /\ 2 * camera_pos[axis] - screen_size[axis] - 2 * margin <= 2 * pos[axis]
        /\ 2 * pos[axis] <= 2 * camera_pos[axis] + screen_size[axis] + 2 * margin

\* C18: after Chunk.update on a visible chunk the active list holds exactly
\* the indices of the actors whose position at the start of the call lies in
\* the viewport widened by 100 on every side (bounds included), ascending and
\* without duplicates.
C18_ActiveListIsActorsWithinMargin ==
    (ChunkUpdated /\ is_visible(hist.chunk_before[1], camera_pos, screen_size)) =>
        LET before == hist.chunk_before[1]
            active == taken[1].active_objects
        IN  /\ Ascending(active)
            /\ Range(active) = {i \in 0..(Len(before.objects) - 1) :
                                  InWidenedViewport(before.objects[i + 1].pos, 100)}

\* C18 witness: a visible chunk has been updated that holds an active actor on
\* the widened viewport's edge, an active actor outside the viewport proper,
\* and an actor that is not active
C18_Witness ==
    /\ ChunkUpdated
    /\ is_visible(hist.chunk_before[1], camera_pos, screen_size)
    /\ LET before == hist.chunk_before[1]
           active == Range(taken[1].active_objects)
       IN  /\ \E i \in active :
                 2 * before.objects[i + 1].pos[1] = 2 * camera_pos[1] + screen_size[1] + 200
           /\ \E i \in active : ~InWidenedViewport(before.objects[i + 1].pos, 0)
           /\ \E i \in 0..(Len(before.objects) - 1) : i \notin active

(***************************************************************************)
(* C19                                                                     *)
(***************************************************************************)
\* a frame is complete: update ran, then draw with the same camera and viewport
FrameDrawn == hist.phases # <<>> /\ hist.drew

\* the actors and tiles that this frame's update found active / visible are
\* the ones it ticked
TickedThisFrame(kind, id) == [kind |-> kind, id |-> id] \in Range(hist.ticks)

\* C19 (as claimed): in a frame, every draw call comes from a chunk that is
\* visible in this frame, and is for an actor that is active, or a tile that
\* is visible, in this frame.
C19_DrawsOnlyActiveActorsAndVisibleTiles ==
    FrameDrawn =>
        \A k \in 1..Len(hist.drawn) :
            /\ is_visible(chunks[hist.drawn[k].chunk], camera_pos, screen_size)
            /\ TickedThisFrame(hist.drawn[k].kind, hist.drawn[k].id)

(***************************************************************************)
(* C20                                                                     *)
(***************************************************************************)
\* the tag of the record that was restored is registered
RestoredRegistered ==
    /\ restored # <<>>
    /\ record[1].type_tag \in
          (IF subject[1].kind = "object" THEN DOMAIN object_registry ELSE DOMAIN tile_registry)

\* the size an instance reports
ReportedSize(kind, x) == IF kind = "object" THEN get_size(x) ELSE tile_get_size(x)

\* C20 (as claimed): deserialize(serialize(x)) for a registered tag yields an
\* instance with the tag, position and size of x, and for an actor also the
\* velocity of x.
C20_RecordRoundTrip ==
    RestoredRegistered =>
        /\ restored[1].ok
        /\ restored[1].value.tag = subject[1].value.tag
        /\ restored[1].value.pos = subject[1].value.pos
        /\ ReportedSize(subject[1].kind, restored[1].value)
              = ReportedSize(subject[1].kind, subject[1].value)
        /\ subject[1].kind = "object" => restored[1].value.vel = subject[1].value.vel

(***************************************************************************)
(* C21. A chunk whose tiles and actors all have registered type tags is    *)
(* restored from its own saved text: Chunk::deserialize succeeds, and the  *)
(* chunk it returns has the same coordinate, as many tiles and actors, and *)
(* at each place of each list a member with the tag, position and size of  *)
(* the original's.                                                         *)
(***************************************************************************)
AllRegistered(chunk) ==
    /\ \A k \in 1..Len(chunk.tiles) : chunk.tiles[k].tag \in DOMAIN tile_registry
    /\ \A k \in 1..Len(chunk.objects) : chunk.objects[k].tag \in DOMAIN object_registry
\* the chunk has been saved and restored from the text that serialize wrote
RestoredFromOwnText ==
    /\ restored # <<>>
    /\ record = <<serialize_chunk(subject[1])>>
SameTile(a, b) ==
    a.tag = b.tag /\ a.pos = b.pos /\ tile_get_size(a) = tile_get_size(b)
SameActor(a, b) ==
    a.tag = b.tag /\ a.pos = b.pos /\ get_size(a) = get_size(b)
C21_ChunkRoundTrip ==
    (RestoredFromOwnText /\ AllRegistered(subject[1])) =>
        /\ restored[1].ok
        /\ restored[1].value.pos = subject[1].pos
        /\ Len(restored[1].value.tiles) = Len(subject[1].tiles)
        /\ Len(restored[1].value.objects) = Len(subject[1].objects)
        /\ \A k \in 1..Len(subject[1].tiles) :
              SameTile(restored[1].value.tiles[k], subject[1].tiles[k])
        /\ \A k \in 1..Len(subject[1].objects) :
              SameActor(restored[1].value.objects[k], subject[1].objects[k])

\* a chunk at a fractional coordinate with two tiles and two different
\* actors has been restored from its own text
C21_Witness ==
    /\ RestoredFromOwnText
    /\ AllRegistered(subject[1])
    /\ subject[1].pos[1].h = 1
    /\ Len(subject[1].tiles) = 2
    /\ Len(subject[1].objects) = 2
    /\ subject[1].objects[1].tag # subject[1].objects[2].tag
    /\ restored[1].ok

(***************************************************************************)
(* C22. Chunk::deserialize returns a chunk only when every member of the   *)
(* chunk record deserializes: when a tile record or an actor record is     *)
(* malformed or names an unregistered type tag, the call returns an error  *)
(* and no chunk.                                                           *)
(***************************************************************************)
\* the member texts of the chunk record that deserialize on their own
GoodTiles(data) ==
    {k \in 1..Len(data.tiles) : deserialize_tile(tile_registry, data.tiles[k]).ok}
GoodActors(data) ==
    {k \in 1..Len(data.objects) : deserialize_object(object_registry, data.objects[k]).ok}
EveryMemberDeserializes(data) ==
    /\ GoodTiles(data) = 1..Len(data.tiles)
    /\ GoodActors(data) = 1..Len(data.objects)
C22_ChunkDeserializeAllOrNothing ==
    (restored # <<>> /\ ParsesAs(record[1], {"pos", "tiles", "objects"})) =>
        /\ restored[1].ok <=> EveryMemberDeserializes(record[1])
        /\ ~restored[1].ok => "value" \notin DOMAIN restored[1]
        /\ restored[1].ok =>
              /\ Len(restored[1].value.tiles) = Len(record[1].tiles)
              /\ Len(restored[1].value.objects) = Len(record[1].objects)

\* a record with a malformed tile, a tile that deserializes and two actors
\* that deserialize has been refused
C22_Witness ==
    /\ restored # <<>>
    /\ ParsesAs(record[1], {"pos", "tiles", "objects"})
    /\ Len(record[1].tiles) = 2
    /\ record[1].tiles[1] = Garbage
    /\ GoodTiles(record[1]) = {2}
    /\ Len(record[1].objects) = 2
    /\ GoodActors(record[1]) = {1, 2}
    /\ ~restored[1].ok
    /\ restored[1].err = "Failed to deserialize TileData"

(***************************************************************************)
(* C23. When the metadata file is read and is well formed, load_world      *)
(* returns Ok; the world it returns holds the chunk of every chunk file    *)
(* that was read and parses, one chunk per such file, and nothing for a    *)
(* file that fails to parse.                                               *)
(***************************************************************************)
LastLoad == result # <<>> /\ result[1].op = "load_world"
MetadataRead ==
    /\ [op |-> "read_to_string", path |-> WorldJson] \notin io_failures
    /\ ParsesAs(result[1].read.meta[1], {"name"})
\* the chunk files the load has read
FilesRead ==
    IF [op |-> "read_dir", path |-> ChunksDir] \in io_failures
    THEN {}
    ELSE {n \in DOMAIN result[1].read.files : [op |-> "read_to_string", path |-> n] \notin io_failures}
ParsedFile(n) == deserialize_chunk(result[1].read.files[n], tile_registry, object_registry)
ParsingFiles == {n \in FilesRead : ParsedFile(n).ok}
C23_LoadSkipsChunkFilesThatFailToParse ==
    (LastLoad /\ MetadataRead) =>
        /\ result[1].ok
        /\ DOMAIN result[1].value.chunks = {chunk_key(ParsedFile(n).value) : n \in ParsingFiles}
        /\ Cardinality(DOMAIN result[1].value.chunks) = Cardinality(ParsingFiles)
        /\ \A n \in ParsingFiles :
              result[1].value.chunks[chunk_key(ParsedFile(n).value)] = ParsedFile(n).value

\* a directory with one corrupted chunk file and two that parse has been
\* loaded without any failed call: the world has exactly two chunks
C23_Witness ==
    /\ LastLoad
    /\ MetadataRead
    /\ io_failures = {}
    /\ Cardinality(DOMAIN result[1].read.files) = 3
    /\ Cardinality({n \in DOMAIN result[1].read.files : result[1].read.files[n] = Garbage}) = 1
    /\ Cardinality(ParsingFiles) = 2
    /\ result[1].ok
    /\ Cardinality(DOMAIN result[1].value.chunks) = 2

(***************************************************************************)
(* C24. A save_world or load_world call during which a filesystem call     *)
(* failed (creating the directories, writing or reading the metadata file, *)
(* listing the chunk directory, writing or reading a chunk file) returns   *)
(* an error.                                                               *)
(***************************************************************************)
C24_EveryIoFailureIsPropagated ==
    (result # <<>> /\ io_failures # {}) => ~result[1].ok

\* what the code does propagate: a failed call of save_world, and a failed
\* read of the metadata file
C24_SaveAndMetadataFailuresArePropagated ==
    (result # <<>> /\ io_failures # {}) =>
        /\ result[1].op = "save_world" => ~result[1].ok
        /\ [op |-> "read_to_string", path |-> WorldJson] \in io_failures => ~result[1].ok

(***************************************************************************)
(* C25. The instances create_by_id returns are independent clones: a       *)
(* set_pos, set_size or set_velocity on one created instance changes no    *)
(* other created instance and no prototype of a registry, and a            *)
(* create_by_id returns the state of the prototype as it was registered,   *)
(* whatever was done to earlier instances.                                 *)
(***************************************************************************)
\* the registrations of this kind and tag, as positions of the call log
RegistrationsOf(kind, tag) ==
    {k \in 1..Len(registered) : registered[k].kind = kind /\ registered[k].proto.tag = tag}
\* the prototype of the last of them
LastRegistered(kind, tag) ==
    registered[CHOOSE k \in RegistrationsOf(kind, tag) :
                  \A j \in RegistrationsOf(kind, tag) : j <= k].proto
\* the instances whose state this step changes
ChangedInstances ==
    {k \in 1..Len(instances) :
        DerefIn(instances[k], object_registry', tile_registry', heap') # Deref(instances[k])}
SetterStep ==
    /\ instances' = instances
    /\ registered' = registered
    /\ <<heap, object_registry, tile_registry>>' # <<heap, object_registry, tile_registry>>
CreateStep == Len(instances') = Len(instances) + 1
InstancesAreIndependent ==
    /\ SetterStep =>
          /\ Cardinality(ChangedInstances) = 1
          /\ object_registry' = object_registry
          /\ tile_registry' = tile_registry
    /\ CreateStep =>
          /\ ChangedInstances = {}
          /\ object_registry' = object_registry
          /\ tile_registry' = tile_registry
          /\ DerefIn(created'[1].ref, object_registry', tile_registry', heap')
                = (IF created'[1].kind = "object" THEN ExampleObjects ELSE ExampleTiles)[created'[1].tag]
\* the prototypes are as they were registered
PrototypesKept ==
    /\ object_registry = ExampleObjects
    /\ tile_registry = ExampleTiles
C25_CreatedInstancesAreIndependentClones == []PrototypesKept /\ [][InstancesAreIndependent]_vars

\* two instances of the same actor type: the first has been moved, resized
\* and given a velocity, and the second, created last, has the state of the
\* prototype
C25_Witness ==
    /\ Len(instances) = 2
    /\ instances[1].kind = "object"
    /\ instances[2].kind = "object"
    /\ instances[1].tag = instances[2].tag
    /\ Deref(instances[1]).pos = NewPos
    /\ Deref(instances[1]).size = NewSize
    /\ Deref(instances[1]).vel = NewVelocity
    /\ created # <<>>
    /\ created[1].some
    /\ created[1].ref = instances[2]
    /\ Deref(instances[2]) = ExampleObjects[instances[2].tag]
    /\ Deref(instances[2]) = object_registry[instances[2].tag]
    /\ Deref(instances[2]).pos # NewPos

(***************************************************************************)
(* C26. register inserts or overwrites under the prototype's own type tag: *)
(* after any sequence of register calls each registry holds, for every tag *)
(* that was registered, the prototype of the last registration of that tag *)
(* and nothing under any other tag, and create_by_id and deserialize for a *)
(* tag clone that prototype.                                               *)
(***************************************************************************)
RegisteredTags(kind) == {registered[k].proto.tag : k \in {j \in 1..Len(registered) : registered[j].kind = kind}}
HoldsLastRegistrations(registry, kind) ==
    /\ DOMAIN registry = RegisteredTags(kind)
    /\ \A tag \in RegisteredTags(kind) : registry[tag] = LastRegistered(kind, tag)
\* the registry a deserialize call was made on
KindOfText(text) == IF text.type_tag \in ObjectTags THEN "object" ELSE "tile"
C26_LastRegistrationWins ==
    /\ HoldsLastRegistrations(object_registry, "object")
    /\ HoldsLastRegistrations(tile_registry, "tile")
    /\ created # <<>> =>
          /\ created[1].some <=> created[1].tag \in RegisteredTags(created[1].kind)
          /\ created[1].some => created[1].value = LastRegistered(created[1].kind, created[1].tag)
    /\ (restored # <<>> /\ ParsesAs(record[1], {"type_tag", "pos", "size"})) =>
          /\ restored[1].ok <=> record[1].type_tag \in RegisteredTags(KindOfText(record[1]))
          /\ restored[1].ok =>
                restored[1].value =
                    set_size(set_pos(LastRegistered(KindOfText(record[1]), record[1].type_tag),
                                     record[1].pos), record[1].size)

\* "mob" has been registered twice, with prototypes in different states, and
\* create_object_by_id("mob") has returned a clone of the second
C26_Witness ==
    /\ Len(registered) = 2
    /\ registered[1].kind = "object"
    /\ registered[2].kind = "object"
    /\ registered[1].proto.tag = "mob"
    /\ registered[2].proto.tag = "mob"
    /\ registered[1].proto # registered[2].proto
    /\ created # <<>>
    /\ created[1].some
    /\ created[1].value = registered[2].proto
    /\ object_registry["mob"] = registered[2].proto

\* "air" has been registered twice and deserialize_tile has restored a tile
\* from the second prototype
C26_TileWitness ==
    /\ Len(registered) = 2
    /\ registered[1].kind = "tile"
    /\ registered[2].kind = "tile"
    /\ registered[1].proto.tag = "air"
    /\ registered[2].proto.tag = "air"
    /\ registered[1].proto # registered[2].proto
    /\ restored # <<>>
    /\ restored[1].ok
    /\ DOMAIN tile_registry = {"air"}

(***************************************************************************)
(* C27. An unregistered type tag gives an error value: create_by_id        *)
(* returns None, deserialize of a well-formed record naming the tag        *)
(* returns an error and no instance, and neither call changes the          *)
(* prototypes of the registries.                                           *)
(***************************************************************************)
RegistryOf(kind) == IF kind = "object" THEN object_registry ELSE tile_registry
UnknownTagIsAnErrorValue ==
    /\ (created # <<>> /\ created[1].tag \notin DOMAIN RegistryOf(created[1].kind)) =>
          /\ ~created[1].some
          /\ DOMAIN created[1] = {"kind", "tag", "some"}
    /\ (restored # <<>> /\ ParsesAs(record[1], {"type_tag", "pos", "size"})
            /\ record[1].type_tag \notin DOMAIN RegistryOf(KindOfText(record[1]))) =>
          /\ ~restored[1].ok
          /\ restored[1].err \in {"Unknown object type", "Unknown tile type"}
          /\ DOMAIN restored[1] = {"ok", "err"}
\* a call that returned None or an error has changed no registry
FailedCallKeepsPrototypes ==
    (\/ created' # created /\ created' # <<>> /\ ~created'[1].some
     \/ restored' # restored /\ restored' # <<>> /\ ~restored'[1].ok) =>
        /\ object_registry' = object_registry
        /\ tile_registry' = tile_registry
        /\ heap' = heap
        /\ instances' = instances
C27_UnregisteredTagIsNonFatal == []UnknownTagIsAnErrorValue /\ [][FailedCallKeepsPrototypes]_vars

\* with prototypes registered, a record naming the unregistered type "ghost"
\* has been refused
C27_Witness ==
    /\ object_registry # <<>>
    /\ restored # <<>>
    /\ record[1] = serialize_object(Actor(1, "ghost", <<250, 100>>, <<0, 0>>))
    /\ ~restored[1].ok
    /\ restored[1].err = "Unknown object type"

\* with prototypes registered, create_tile_by_id("lava") has returned None
C27_NoneWitness ==
    /\ tile_registry # <<>>
    /\ created # <<>>
    /\ created[1].kind = "tile"
    /\ created[1].tag = "lava"
    /\ ~created[1].some

(***************************************************************************)
(* C28. find_biome(h, m, t) returns the earliest-registered biome whose    *)
(* is_suitable(h, m, t) is true, never a later one while an earlier one is *)
(* suitable, and returns None exactly when no registered biome is          *)
(* suitable.                                                               *)
(***************************************************************************)
\* the positions of the registered biomes that suit the place asked about
SuitableAt(place) ==
    {k \in 1..Len(biome_registry) : is_suitable(biome_registry[k], place[1], place[2], place[3])}
C28_FindBiomeReturnsFirstSuitable ==
    found # <<>> =>
        /\ found[1].biome.some <=> SuitableAt(found[1].place) # {}
        /\ found[1].biome.some =>
              /\ found[1].biome.at \in SuitableAt(found[1].place)
              /\ \A j \in SuitableAt(found[1].place) : found[1].biome.at <= j
              /\ found[1].biome.value = biome_registry[found[1].biome.at]

\* the biome found is the second registered, and a biome registered after
\* it suits the place as well
C28_Witness ==
    /\ found # <<>>
    /\ found[1].biome.some
    /\ found[1].biome.at = 2
    /\ 3 \in SuitableAt(found[1].place)
    /\ biome_registry[3] # biome_registry[2]

\* biomes are registered and none suits the place asked about: None
C28_NoneWitness ==
    /\ found # <<>>
    /\ Len(biome_registry) = 2
    /\ biome_registry[1] # biome_registry[2]
    /\ ~found[1].biome.some

(***************************************************************************)
(* C29. An actor of a type that does not override tick has its position    *)
(* advanced by its velocity, its size unchanged, every time Chunk::update  *)
(* ticks it.                                                               *)
(***************************************************************************)
\* the types of the model that override Object::tick
OverridesTick(o) == o.tag = "mob"
C29_DefaultTickAdvancesByVelocity ==
    (ChunkUpdated /\ is_visible(hist.chunk_before[1], camera_pos, screen_size)) =>
        \A k \in 1..Len(taken[1].active_objects) :
            LET before == hist.chunk_before[1].objects[taken[1].active_objects[k] + 1]
                after == taken[1].objects[taken[1].active_objects[k] + 1]
            IN  ~OverridesTick(before) =>
                    /\ after.pos = VAdd(before.pos, before.vel)
                    /\ get_size(after) = get_size(before)

\* what the code does: the tick of such an actor changes nothing
C29_DefaultTickChangesNothing ==
    (ChunkUpdated /\ is_visible(hist.chunk_before[1], camera_pos, screen_size)) =>
        \A k \in 1..Len(taken[1].active_objects) :
            LET before == hist.chunk_before[1].objects[taken[1].active_objects[k] + 1]
                after == taken[1].objects[taken[1].active_objects[k] + 1]
            IN  ~OverridesTick(before) => after = before

(***************************************************************************)
(* C30. The default collision handler changes only the receiver's          *)
(* velocity.  With both boxes at their current positions shrunk by 1 on    *)
(* every side: when they overlap on both axes, velocity.x is zeroed if the *)
(* x overlap is the smaller, velocity.y if the y overlap is the smaller,   *)
(* both if the overlaps are equal; when they do not overlap the velocity   *)
(* is left as it was.  The receiver's position and size and the other      *)
(* actor are never modified.                                               *)
(***************************************************************************)
\* the box of an actor shrunk by 1 on every side, on axis a: low and high end
ShrunkLow(o, a) == o.pos[a] + 1
ShrunkHigh(o, a) == o.pos[a] + get_size(o)[a] - 1
OverlapOn(p, q, a) == ShrunkLow(p, a) < ShrunkHigh(q, a) /\ ShrunkLow(q, a) < ShrunkHigh(p, a)
\* how far the shrunk boxes reach into each other on axis a
Penetration(p, q, a) ==
    IF ShrunkHigh(p, a) - ShrunkLow(q, a) <= ShrunkHigh(q, a) - ShrunkLow(p, a)
    THEN ShrunkHigh(p, a) - ShrunkLow(q, a)
    ELSE ShrunkHigh(q, a) - ShrunkLow(p, a)
ShrunkBoxesOverlap(p, q) == OverlapOn(p, q, 1) /\ OverlapOn(p, q, 2)
\* the velocity the rule gives the receiver p against q
VelocityAfter(p, q) ==
    IF ~ShrunkBoxesOverlap(p, q) THEN p.vel
    ELSE IF Penetration(p, q, 1) < Penetration(p, q, 2) THEN <<0, p.vel[2]>>
    ELSE IF Penetration(p, q, 1) > Penetration(p, q, 2) THEN <<p.vel[1], 0>>
    ELSE <<0, 0>>
C30_DefaultCollisionZeroesLeastPenetrationAxis ==
    collided # <<>> =>
        /\ collided[1].self =
              [colliding[1].self EXCEPT !.vel = VelocityAfter(colliding[1].self, colliding[1].other)]
        /\ collided[1].self.pos = colliding[1].self.pos
        /\ collided[1].self.size = colliding[1].self.size
        /\ collided[1].other = colliding[1].other

\* a moving receiver whose shrunk box overlaps the other's by 1 on x and by
\* more on y has lost its x velocity and kept its y velocity
C30_Witness ==
    /\ collided # <<>>
    /\ ShrunkBoxesOverlap(colliding[1].self, colliding[1].other)
    /\ Penetration(colliding[1].self, colliding[1].other, 1) = 1
    /\ Penetration(colliding[1].self, colliding[1].other, 2) > 1
    /\ colliding[1].self.vel = <<3, -2>>
    /\ collided[1].self.vel = <<0, -2>>

\* equal overlaps: both components zeroed
C30_TieWitness ==
    /\ collided # <<>>
    /\ ShrunkBoxesOverlap(colliding[1].self, colliding[1].other)
    /\ Penetration(colliding[1].self, colliding[1].other, 1)
          = Penetration(colliding[1].self, colliding[1].other, 2)
    /\ colliding[1].self.vel = <<3, -2>>
    /\ collided[1].self.vel = <<0, 0>>

\* boxes that overlap at full size but not when shrunk: velocity kept
C30_TouchWitness ==
    /\ collided # <<>>
    /\ ~ShrunkBoxesOverlap(colliding[1].self, colliding[1].other)
    /\ colliding[1].other.pos[1] < colliding[1].self.pos[1] + get_size(colliding[1].self)[1]
    /\ colliding[1].other.pos[1] > colliding[1].self.pos[1]
    /\ colliding[1].other.pos[2] = colliding[1].self.pos[2]
    /\ colliding[1].self.vel = <<3, -2>>
    /\ collided[1].self.vel = <<3, -2>>

(***************************************************************************)
(* C31. In World::update the collision callbacks involve active actors     *)
(* only: an actor whose position lies outside the viewport widened by the  *)
(* activation margin, or whose chunk is not in the visible window, neither *)
(* receives a callback nor is handed to one as the other party.            *)
(***************************************************************************)
\* the pairs of the last collision pass that led to callbacks
PairsCalled == {n \in 1..Len(hist.exams) : hist.exams[n].calls # <<>>}
C31_CallbacksOnlyAmongActiveActors ==
    \A n \in PairsCalled :
        /\ InWidenedViewport(hist.exams[n].a.pos, OBJECT_ACTIVATION_MARGIN)
        /\ InWidenedViewport(hist.exams[n].b.pos, OBJECT_ACTIVATION_MARGIN)

\* what the code does: the parties of a callback are the actors stored in
\* the loaded chunks of the visible window when the pass began
C31_CallbacksOnlyAmongWindowActors ==
    \A n \in 1..Len(hist.exams) :
        \A id \in {hist.exams[n].a.id, hist.exams[n].b.id} :
            \E K \in Range(visible_chunks) \cap DOMAIN hist.drained_from :
                \E k \in 1..Len(hist.drained_from[K].objects) :
                    hist.drained_from[K].objects[k].id = id

(***************************************************************************)
(* C32. get_objects_by_type(tag) and get_tiles_by_type(tag) return exactly *)
(* the actors and tiles with that tag stored in the loaded chunks of the   *)
(* visible window, and once update has been called that window is the      *)
(* square of chunks within render_dist of the camera's chunk.              *)
(***************************************************************************)
\* the chunk coordinates within render_dist of the chunk of the camera
WindowAround(camera) ==
    LET C == get_chunk_coords(camera)
    IN  {<<C[1] + x, C[2] + y>> : x \in (0 - render_dist)..render_dist,
                                  y \in (0 - render_dist)..render_dist}
\* the places (chunk key, index) of the members with this tag in these chunks
ObjectPlaces(Ks, t) ==
    UNION {{<<K, k>> : k \in {j \in 1..Len(chunks[K].objects) :
                                    chunks[K].objects[j].tag = t}} : K \in Ks}
TilePlaces(Ks, t) ==
    UNION {{<<K, k>> : k \in {j \in 1..Len(chunks[K].tiles) :
                                    chunks[K].tiles[j].tag = t}} : K \in Ks}
UpdateWasCalled == updates > 0 \/ pc # "idle"

C32_LookupsCoverTheLoadedWindow ==
    /\ \A t \in Tags :
        LET objs  == get_objects_by_type(chunks, visible_chunks, 1, t)
            tiles == get_tiles_by_type(chunks, visible_chunks, 1, t)
        IN  /\ Range(objs) = {chunks[P[1]].objects[P[2]] : P \in ObjectPlaces(VisibleLoaded, t)}
            /\ Len(objs) = Cardinality(ObjectPlaces(VisibleLoaded, t))
            /\ Range(tiles) = {chunks[P[1]].tiles[P[2]] : P \in TilePlaces(VisibleLoaded, t)}
            /\ Len(tiles) = Cardinality(TilePlaces(VisibleLoaded, t))
    /\ UpdateWasCalled =>
          /\ Range(visible_chunks) = WindowAround(camera_pos)
          /\ Len(visible_chunks) = Cardinality(WindowAround(camera_pos))

\* C32 witness: after an update the lookup of mobs finds some, the lookup of
\* stone tiles finds some, a chunk outside the window holds a mob the lookup
\* leaves out, and a chunk of the window holds actors of another type
C32_Witness ==
    /\ pc = "idle" /\ updates > 0
    /\ get_objects_by_type(chunks, visible_chunks, 1, "mob") # <<>>
    /\ get_tiles_by_type(chunks, visible_chunks, 1, "stone") # <<>>
    /\ ObjectPlaces(DOMAIN chunks \ Range(visible_chunks), "mob") # {}
    /\ ObjectPlaces(VisibleLoaded, "crate") # {}

(***************************************************************************)
(* C35. Conservation of actors: when World::update has returned, every     *)
(* actor the map held at the call is stored at exactly one place of        *)
(* exactly one chunk, except the actors a move removed whose destination   *)
(* chunk is not loaded, which are nowhere; the number of stored actors has *)
(* not grown, and is the same when every destination is loaded.            *)
(***************************************************************************)
UpdateReturned == pc = "idle" /\ "collide" \in Range(hist.phases)
\* the places (chunk key, index) at which a map stores an actor
Places(chs) ==
    UNION {{<<K, k>> : k \in 1..Len(chs[K].objects)} : K \in DOMAIN chs}
PlacesOf(chs, id) == {P \in Places(chs) : chs[P[1]].objects[P[2]].id = id}
IdsOf(chs) == {o.id : o \in ActorsOf(chs)}
\* the actors removed by a move of the last update whose destination is not
\* in the map
Dropped == {e.id : e \in {d \in Moved : d.mv[2] \notin DOMAIN hist.start}}

C35_ActorsAreConserved ==
    UpdateReturned =>
        /\ DOMAIN chunks = DOMAIN hist.start
        /\ \A id \in IdsOf(hist.start) \ Dropped :
              Cardinality(PlacesOf(chunks, id)) = 1
        /\ \A id \in Dropped : PlacesOf(chunks, id) = {}
        /\ IdsOf(chunks) \subseteq IdsOf(hist.start)
        /\ Cardinality(Places(chunks)) =
              Cardinality(Places(hist.start)) - Cardinality(Dropped)

\* C35 witness: an update has returned that moved one actor into a loaded
\* chunk and dropped another whose destination is not loaded
C35_Witness ==
    /\ UpdateReturned
    /\ Dropped # {}
    /\ \E e \in Moved : e.mv[2] \in DOMAIN chunks /\ PlacesOf(chunks, e.id) # {}
    /\ Cardinality(Places(chunks)) > 1

(***************************************************************************)
(* C36. In one World::update every actor is ticked at most once, an actor  *)
(* that migrated between two chunks of the window included; it is ticked   *)
(* once exactly when, after the migration step, it is stored in a loaded   *)
(* chunk of the window that is_visible for the camera and viewport and its *)
(* position lies in the viewport widened by the activation margin.         *)
(***************************************************************************)
\* the number of tick calls the running or last update made on this actor
TicksOf(id) ==
    Cardinality({k \in 1..Len(hist.ticks) :
                    hist.ticks[k].kind = "object" /\ hist.ticks[k].id = id})
\* the map as the migration step left it
AfterMigration == hist.drained_from
\* the actor is stored in a loaded chunk of the window the camera sees
InSeenChunk(id) ==
    \E K \in KeysHolding(AfterMigration, id) \cap Range(visible_chunks) :
        is_visible(AfterMigration[K], camera_pos, screen_size)

TickedAtMostOnce ==
    \A k \in 1..Len(hist.ticks) :
        hist.ticks[k].kind = "object" => TicksOf(hist.ticks[k].id) = 1
TickedIffSeenAndNear ==
    UpdateReturned =>
        \A o \in ActorsOf(AfterMigration) :
            TicksOf(o.id) = 1 <=>
                (InSeenChunk(o.id) /\ InWidenedViewport(o.pos, OBJECT_ACTIVATION_MARGIN))
C36_EveryActorTickedAtMostOnce == TickedAtMostOnce /\ TickedIffSeenAndNear

\* C36 witness: an update has returned in which an actor that had migrated
\* into another loaded chunk of the window was ticked, an actor of a seen
\* chunk was too far from the viewport to be ticked, and an actor of a window
\* chunk the camera does not see was not ticked
C36_Witness ==
    /\ UpdateReturned
    /\ \E e \in Moved : e.mv[2] \in VisibleLoaded /\ TicksOf(e.id) = 1
    /\ \E o \in ActorsOf(AfterMigration) :
          /\ InSeenChunk(o.id)
          /\ ~InWidenedViewport(o.pos, OBJECT_ACTIVATION_MARGIN)
          /\ TicksOf(o.id) = 0
    /\ \E o \in ActorsOf(AfterMigration) :
          /\ KeysHolding(AfterMigration, o.id) \cap Range(visible_chunks) # {}
          /\ ~InSeenChunk(o.id)
          /\ TicksOf(o.id) = 0

(***************************************************************************)
(* Chunk::update_visible_tiles and Chunk::draw_tiles on one chunk holding  *)
(* any number of tiles, for cameras inside, on the edge of and outside it  *)
(***************************************************************************)
\* tiles.len(): none, one, a row and one, a full grid less one, a full grid,
\* and more than a grid (tiles is a public Vec, with_capacity is no limit)
TileCounts == {0, 1, CHUNK_SIZE + 1, CHUNK_SIZE * CHUNK_SIZE - 1,
               CHUNK_SIZE * CHUNK_SIZE, CHUNK_SIZE * CHUNK_SIZE + 1}
\* n tiles laid out row by row from the chunk's corner
GridTiles(min, n) ==
    [k \in 1..n |-> Tile(k, "stone", <<min[1] + ((k - 1) % CHUNK_SIZE) * TILE_SIZE,
                                       min[2] + ((k - 1) \div CHUNK_SIZE) * TILE_SIZE>>)]
TiledChunk(pos, n) ==
    [NewChunk(pos) EXCEPT !.tiles = GridTiles(NewChunk(pos).bounds[1], n)]
TileCameras == {<<128, 128>>, <<0, 0>>, <<40, 200>>, <<256, 256>>, <<-400, 128>>, <<300, -30>>}
TileScreens == {<<0, 0>>, <<32, 32>>, <<800, 600>>, <<2000, 2000>>}

\* the loop of draw_tiles, `&self.tiles[tile_index]` for each listed index: the
\* draw calls submitted, and whether an index past the end stopped the loop
\* with a panic
IndexTiles(chunk) ==
    LET bad == {k \in 1..Len(chunk.visible_tiles) :
                    chunk.visible_tiles[k] >= Len(chunk.tiles)}
        stop == IF bad = {} THEN Len(chunk.visible_tiles)
                ELSE (CHOOSE k \in bad : \A j \in bad : k <= j) - 1
    IN  [panicked |-> bad # {},
         drawn |-> [k \in 1..stop |-> chunk.tiles[chunk.visible_tiles[k] + 1].id]]

TileInit ==
    /\ IdleWorld
    /\ object_registry = ExampleObjects
    /\ tile_registry = ExampleTiles
    /\ biome_registry = ExampleBiomes
    /\ found = <<>>
    /\ subject \in {<<TiledChunk(pos, n)>> : pos \in ChunkPosInputs, n \in TileCounts}
    /\ record = <<>>
    /\ restored = <<>>
    /\ NothingSaved
    /\ NothingCreated

TileFrame == <<object_registry, tile_registry, record, restored, save_dir, io_failures,
               chunks, visible_chunks, pc, dt, movements, vi, taken, updates, hist>>

\* self.update_visible_tiles(camera_pos, screen_size)
UpdateVisibleTiles ==
    /\ \E c \in TileCameras, s \in TileScreens :
        /\ camera_pos' = c
        /\ screen_size' = s
        /\ subject' = <<[subject[1] EXCEPT
                           !.visible_tiles = update_visible_tiles(subject[1], c, s)]>>
        /\ result' = <<[op |-> "update_visible_tiles", listed |-> TRUE]>>
    /\ UNCHANGED TileFrame
    /\ UNCHANGED registryVars
    /\ UNCHANGED biomeVars
    /\ UNCHANGED handlerVars

\* chunk.draw_tiles(camera_pos, screen_size, batch)
DrawTiles ==
    /\ \E c \in TileCameras, s \in TileScreens :
        /\ camera_pos' = c
        /\ screen_size' = s
        /\ subject' = <<draw_tiles(subject[1], c, s)>>
        /\ result' = <<[op |-> "draw_tiles",
                        listed |-> is_visible(subject[1], c, s),
                        panicked |-> is_visible(subject[1], c, s)
                                        /\ IndexTiles(subject'[1]).panicked,
                        drawn |-> IF is_visible(subject[1], c, s)
                                  THEN IndexTiles(subject'[1]).drawn ELSE <<>>]>>
    /\ UNCHANGED TileFrame
    /\ UNCHANGED registryVars
    /\ UNCHANGED biomeVars
    /\ UNCHANGED handlerVars

\* the owner of the chunk changes chunk.tiles between two calls
SetTiles ==
    /\ \E n \in TileCounts :
        /\ n # Len(subject[1].tiles)
        /\ subject' = <<[subject[1] EXCEPT !.tiles = GridTiles(subject[1].bounds[1], n)]>>
    /\ result' = <<[op |-> "tiles", listed |-> FALSE]>>
    /\ UNCHANGED <<camera_pos, screen_size>>
    /\ UNCHANGED TileFrame
    /\ UNCHANGED registryVars
    /\ UNCHANGED biomeVars
    /\ UNCHANGED handlerVars

TileNext == UpdateVisibleTiles \/ DrawTiles \/ SetTiles
TileSpec == TileInit /\ [][TileNext]_vars

(***************************************************************************)
(* C38. Whatever the camera, the viewport and the number of tiles of the   *)
(* chunk, every index update_visible_tiles lists is below tiles.len() and  *)
(* below CHUNK_SIZE * CHUNK_SIZE and is listed once, so the indexing       *)
(* self.tiles[tile_index] of draw_tiles stays within bounds.               *)
(***************************************************************************)
ListedTilesInBounds ==
    (result # <<>> /\ result[1].listed) =>
        LET listed == subject[1].visible_tiles
        IN  /\ \A k \in 1..Len(listed) :
                  /\ listed[k] >= 0
                  /\ listed[k] < Len(subject[1].tiles)
                  /\ listed[k] < CHUNK_SIZE * CHUNK_SIZE
            /\ \A j, k \in 1..Len(listed) : listed[j] = listed[k] => j = k
DrawTilesNeverPanics ==
    (result # <<>> /\ result[1].op = "draw_tiles") =>
        /\ ~result[1].panicked
        /\ result[1].listed => Len(result[1].drawn) = Len(subject[1].visible_tiles)
C38_VisibleTileIndicesInBounds == ListedTilesInBounds /\ DrawTilesNeverPanics

\* C38 witness: draw_tiles has drawn tiles of a chunk that holds fewer tiles
\* than the grid cells the viewport covers, so that the loops went through
\* cells that have no tile
C38_Witness ==
    /\ result # <<>> /\ result[1].op = "draw_tiles"
    /\ result[1].drawn # <<>>
    /\ \E k \in 1..Len(GridCells(subject[1], camera_pos, screen_size)) :
          GridCells(subject[1], camera_pos, screen_size)[k] >= Len(subject[1].tiles)

\* C38 witness for a chunk with more tiles than the grid has cells: the whole
\* grid is listed and the tile past it is not
C38_WitnessOverfull ==
    /\ result # <<>> /\ result[1].listed
    /\ Len(subject[1].tiles) > CHUNK_SIZE * CHUNK_SIZE
    /\ Len(subject[1].visible_tiles) = CHUNK_SIZE * CHUNK_SIZE

(***************************************************************************)
(* Several worlds saved into one directory, one after the other, and the   *)
(* directory loaded right after a save that succeeded                      *)
(***************************************************************************)
\* another world is about to be saved into the same directory
ReplaceWorld ==
    /\ chunks' \in WorldInputs \ {chunks}
    /\ result' = <<>>
    /\ io_failures' = {}
    /\ UNCHANGED save_dir
    /\ UNCHANGED <<visible_chunks, pc, camera_pos, screen_size, dt, movements,
                   vi, taken, updates, hist>>
    /\ UNCHANGED <<object_registry, tile_registry, subject, record, restored>>
    /\ UNCHANGED registryVars
    /\ UNCHANGED biomeVars
    /\ UNCHANGED handlerVars

\* World::load_world(save_dir, ..) called when world.save_world(save_dir) has
\* just returned Ok
LoadSaved ==
    /\ result # <<>> /\ result[1].op = "save_world" /\ result[1].ok
    /\ LoadWorld

HistoryNext == ReplaceWorld \/ SaveWorld \/ LoadSaved
HistorySpec == StoreInit /\ [][HistoryNext]_vars

(***************************************************************************)
(* C37. After save_world(dir) has succeeded, load_world(dir) with          *)
(* registries that know every tag in use returns a world with the saved    *)
(* world's name and exactly the saved world's chunk keys, whichever worlds *)
(* were saved into dir before.                                             *)
(***************************************************************************)
\* the registries hold a prototype for every tag the world uses
RegistriesCover(chs) ==
    \A K \in DOMAIN chs :
        /\ \A k \in 1..Len(chs[K].objects) : chs[K].objects[k].tag \in DOMAIN object_registry
        /\ \A k \in 1..Len(chs[K].tiles) : chs[K].tiles[k].tag \in DOMAIN tile_registry
\* the world in `chunks` was saved, and the directory was then loaded with
\* every read succeeding
LoadedAfterSave == LastLoad /\ io_failures = {} /\ RegistriesCover(chunks)

C37_LoadReturnsTheSavedWorld ==
    LoadedAfterSave =>
        /\ result[1].ok
        /\ result[1].value.world_name = world_name
        /\ DOMAIN result[1].value.chunks = DOMAIN chunks

\* what the code does: the loaded world has the saved name and a chunk for
\* every key of the saved world, and any further chunk comes from a file
\* that the successful save did not write
C37_LoadReturnsAtLeastTheSavedWorld ==
    LoadedAfterSave =>
        /\ result[1].ok
        /\ result[1].value.world_name = world_name
        /\ DOMAIN chunks \subseteq DOMAIN result[1].value.chunks
        /\ \A K \in DOMAIN result[1].value.chunks \ DOMAIN chunks :
              /\ chunk_path(K) \in DOMAIN result[1].read.files
              /\ result[1].value.chunks[K] = ParsedFile(chunk_path(K)).value

(***************************************************************************)
(* Button (core/ui/button.rs) and the Element methods it implements        *)
(***************************************************************************)
ButtonState == {"Normal", "Hovered", "Pressed", "Disabled"}
Rect(x, y, w, h) == [x |-> x, y |-> y, w |-> w, h |-> h]
\* Rect::contains of the graphics library (the mouse positions of the model
\* never lie on an edge of the bounds, where versions of the library differ)
contains(bounds, point) ==
    /\ point[1] >= bounds.x /\ point[1] <= bounds.x + bounds.w
    /\ point[2] >= bounds.y /\ point[2] <= bounds.y + bounds.h

\* Button::new
button_new(text, bounds) ==
    [text |-> text, bounds |-> bounds, state |-> "Normal", visible |-> TRUE,
     was_pressed |-> FALSE]

\* a variant of update that counts a release outside the bounds as a click
button_update_click_anywhere(self, mouse_pos, is_pressed) ==
    IF ~self.visible \/ self.state = "Disabled" THEN [button |-> self, changed |-> FALSE]
    ELSE LET is_hovered == contains(self.bounds, mouse_pos)
         IN  IF self.state = "Pressed" /\ ~is_pressed
             THEN [button |-> [self EXCEPT !.was_pressed = TRUE,
                                           !.state = IF is_hovered THEN "Hovered" ELSE "Normal"],
                   changed |-> TRUE]
             ELSE IF self.state \in {"Normal", "Hovered"} /\ is_hovered /\ is_pressed
             THEN [button |-> [self EXCEPT !.state = "Pressed"], changed |-> TRUE]
             ELSE IF self.state = "Hovered" /\ ~is_hovered
             THEN [button |-> [self EXCEPT !.state = "Normal"], changed |-> TRUE]
             ELSE IF self.state = "Normal" /\ is_hovered
             THEN [button |-> [self EXCEPT !.state = "Hovered"], changed |-> TRUE]
             ELSE [button |-> self, changed |-> FALSE]

\* a variant of update that reports a change whenever the pointer is inside
button_update_always_dirty(self, mouse_pos, is_pressed) ==
    IF ~self.visible \/ self.state = "Disabled" THEN [button |-> self, changed |-> FALSE]
    ELSE LET is_hovered == contains(self.bounds, mouse_pos)
         IN  IF self.state = "Pressed" /\ ~is_pressed
             THEN [button |-> IF is_hovered
                              THEN [self EXCEPT !.was_pressed = TRUE, !.state = "Hovered"]
                              ELSE [self EXCEPT !.state = "Normal"],
                   changed |-> TRUE]
             ELSE IF self.state \in {"Normal", "Hovered"} /\ is_hovered /\ is_pressed
             THEN [button |-> [self EXCEPT !.state = "Pressed"], changed |-> TRUE]
             ELSE IF self.state = "Hovered" /\ ~is_hovered
             THEN [button |-> [self EXCEPT !.state = "Normal"], changed |-> TRUE]
             ELSE IF self.state = "Normal" /\ is_hovered
             THEN [button |-> [self EXCEPT !.state = "Hovered"], changed |-> TRUE]
             ELSE [button |-> self, changed |-> is_hovered]

\* <Button as Element>::update, with the mouse position and the value of
\* is_mouse_button_pressed(Left) it reads: the button it leaves and the value
\* it returns.  The arms of the match are tried in the order of the source.
button_update(self, mouse_pos, is_pressed) ==
    IF ~self.visible \/ self.state = "Disabled" THEN [button |-> self, changed |-> FALSE]
    ELSE LET is_hovered == contains(self.bounds, mouse_pos)
         IN  IF self.state = "Normal" /\ is_hovered /\ is_pressed
             THEN [button |-> [self EXCEPT !.state = "Pressed"], changed |-> TRUE]
             ELSE IF self.state = "Pressed" /\ ~is_pressed
             THEN [button |-> IF is_hovered
                              THEN [self EXCEPT !.was_pressed = TRUE, !.state = "Hovered"]
                              ELSE [self EXCEPT !.state = "Normal"],
                   changed |-> TRUE]
             ELSE IF self.state = "Hovered" /\ is_hovered /\ is_pressed
             THEN [button |-> [self EXCEPT !.state = "Pressed"], changed |-> TRUE]
             ELSE IF self.state = "Hovered" /\ ~is_hovered
             THEN [button |-> [self EXCEPT !.state = "Normal"], changed |-> TRUE]
             ELSE IF self.state = "Normal" /\ is_hovered
             THEN [button |-> [self EXCEPT !.state = "Hovered"], changed |-> TRUE]
             ELSE [button |-> self, changed |-> FALSE]

\* Button::was_clicked (&self: the button is left as it is)
was_clicked(self) ==
    IF ~self.visible \/ self.state = "Disabled" THEN FALSE ELSE self.was_pressed

\* Button::reset_click
reset_click(self) ==
    IF self.was_pressed THEN [self EXCEPT !.was_pressed = FALSE] ELSE self

ButtonBounds == {Rect(10, 10, 20, 10), Rect(100, 100, 2, 2)}
MouseInputs == {<<15, 15>>, <<105, 105>>, <<50, 50>>}
ButtonPositions == {<<10, 10>>, <<100, 100>>}
ButtonSizes == {<<20, 10>>, <<2, 2>>}
ButtonTexts == {"Play", "Quit"}

\* a button has been made.  record holds whether the transition that sets
\* the click flag has happened since the last was_clicked or reset_click call
ButtonInit ==
    /\ IdleWorld
    /\ object_registry = ExampleObjects
    /\ tile_registry = ExampleTiles
    /\ biome_registry = ExampleBiomes
    /\ found = <<>>
    /\ subject \in {<<button_new("Play", b)>> : b \in ButtonBounds}
    /\ record = <<FALSE>>
    /\ restored = <<>>
    /\ NothingSaved
    /\ NothingCreated

ButtonFrame == <<object_registry, tile_registry, restored, save_dir, io_failures,
                 worldVars, registryVars, biomeVars, handlerVars>>

\* button.update() in a frame with this mouse state
ButtonUpdate ==
    /\ \E mouse_pos \in MouseInputs, is_pressed \in BOOLEAN :
        LET res == button_update(subject[1], mouse_pos, is_pressed)
        IN  /\ subject' = <<res.button>>
            /\ result' = <<[op |-> "update", value |-> res.changed, before |-> subject[1],
                            is_hovered |-> contains(subject[1].bounds, mouse_pos),
                            is_pressed |-> is_pressed]>>
            /\ record' = <<record[1] \/ (res.button.was_pressed /\ res.changed
                                            /\ res.button.state = "Hovered"
                                            /\ subject[1].state = "Pressed")>>
    /\ UNCHANGED ButtonFrame

\* button.was_clicked()
WasClicked ==
    /\ result' = <<[op |-> "was_clicked", value |-> was_clicked(subject[1]),
                    before |-> subject[1], clicked_since |-> record[1]]>>
    /\ record' = <<FALSE>>
    /\ UNCHANGED subject
    /\ UNCHANGED ButtonFrame

\* button.reset_click()
ResetClick ==
    /\ subject' = <<reset_click(subject[1])>>
    /\ result' = <<[op |-> "reset_click", before |-> subject[1]]>>
    /\ record' = <<FALSE>>
    /\ UNCHANGED ButtonFrame

\* button.set_visible(visible)
SetVisible ==
    /\ \E visible \in BOOLEAN :
        subject' = <<[subject[1] EXCEPT !.visible = visible]>>
    /\ result' = <<[op |-> "set_visible", before |-> subject[1]]>>
    /\ UNCHANGED record
    /\ UNCHANGED ButtonFrame

\* button.set_position(position)
SetPosition ==
    /\ \E position \in ButtonPositions :
        subject' = <<[subject[1] EXCEPT !.bounds.x = position[1], !.bounds.y = position[2]]>>
    /\ result' = <<[op |-> "set_position", before |-> subject[1]]>>
    /\ UNCHANGED record
    /\ UNCHANGED ButtonFrame

\* button.set_size(size)
ButtonSetSize ==
    /\ \E size \in ButtonSizes :
        subject' = <<[subject[1] EXCEPT !.bounds.w = size[1], !.bounds.h = size[2]]>>
    /\ result' = <<[op |-> "set_size", before |-> subject[1]]>>
    /\ UNCHANGED record
    /\ UNCHANGED ButtonFrame

\* button.set_text(text)
SetText ==
    /\ \E text \in ButtonTexts :
        subject' = <<[subject[1] EXCEPT !.text = text]>>
    /\ result' = <<[op |-> "set_text", before |-> subject[1]]>>
    /\ UNCHANGED record
    /\ UNCHANGED ButtonFrame

ButtonNext ==
    \/ ButtonUpdate
    \/ WasClicked
    \/ ResetClick
    \/ SetVisible
    \/ SetPosition
    \/ ButtonSetSize
    \/ SetText
ButtonSpec == ButtonInit /\ [][ButtonNext]_vars

(***************************************************************************)
(* C33. was_clicked returns true iff the button has been clicked since the *)
(* last was_clicked or reset_click call: after one click, the second of    *)
(* two was_clicked calls in a row returns false.                           *)
(***************************************************************************)
LastWasClicked == result # <<>> /\ result[1].op = "was_clicked"
C33_WasClickedTrueOnlyAfterNewClick ==
    LastWasClicked => (result[1].value => result[1].clicked_since)

\* what the code does: was_clicked reports the stored flag of a visible
\* button and leaves the button as it is
C33_WasClickedReadsTheFlag ==
    LastWasClicked =>
        /\ result[1].value = (result[1].before.visible /\ result[1].before.was_pressed)
        /\ subject[1] = result[1].before
\* and only reset_click clears the flag
C33_OnlyResetClearsTheFlag ==
    [][(subject[1].was_pressed /\ ~subject'[1].was_pressed)
          => result'[1].op = "reset_click"]_vars

(***************************************************************************)
(* C34. The click flag becomes set only in an update of a visible button   *)
(* in state Pressed that reads the mouse button as not pressed and the     *)
(* pointer inside the bounds, which takes the button to Hovered; the same  *)
(* update with the pointer outside takes it to Normal and sets no flag;    *)
(* and after reset_click, was_clicked returns false until that transition  *)
(* happens again.                                                          *)
(***************************************************************************)
\* the step is an update that releases the pressed, visible button with the
\* pointer inside its bounds
ClickStep ==
    /\ result'[1].op = "update"
    /\ subject[1].visible
    /\ subject[1].state = "Pressed"
    /\ ~result'[1].is_pressed
    /\ result'[1].is_hovered
FlagSetOnlyByClick ==
    (~subject[1].was_pressed /\ subject'[1].was_pressed) =>
        (ClickStep /\ subject'[1].state = "Hovered" /\ result'[1].value)
ClickSetsFlag ==
    ClickStep => (subject'[1].was_pressed /\ subject'[1].state = "Hovered")
ReleaseOutsideIsNoClick ==
    (/\ result'[1].op = "update"
     /\ subject[1].visible
     /\ subject[1].state = "Pressed"
     /\ ~result'[1].is_pressed
     /\ ~result'[1].is_hovered) =>
        (subject'[1].state = "Normal" /\ subject'[1].was_pressed = subject[1].was_pressed)
ResetClearsFlag ==
    result'[1].op = "reset_click" => ~subject'[1].was_pressed
\* was_clicked returns true only if the flag is set
WasClickedNeedsFlag ==
    LastWasClicked => (result[1].value => subject[1].was_pressed)

C34_ClickFlagLifecycle ==
    /\ []WasClickedNeedsFlag
    /\ [][FlagSetOnlyByClick /\ ClickSetsFlag /\ ReleaseOutsideIsNoClick /\ ResetClearsFlag]_vars

\* C34 witness: an update has released a pressed, visible button whose flag
\* was clear with the pointer inside its bounds: the flag is set and the
\* button is Hovered
C34_Witness ==
    /\ result # <<>> /\ result[1].op = "update"
    /\ result[1].before.visible
    /\ result[1].before.state = "Pressed"
    /\ ~result[1].before.was_pressed
    /\ ~result[1].is_pressed /\ result[1].is_hovered
    /\ subject[1].was_pressed
    /\ subject[1].state = "Hovered"

(***************************************************************************)
(* C39. Whatever calls of update, set_visible, set_position, set_size,     *)
(* set_text and reset_click are made, with whatever mouse input, the state *)
(* of a Button is Normal, Hovered or Pressed, never Disabled, and update   *)
(* returns true exactly when it has changed the state.                     *)
(***************************************************************************)
StateIsNeverDisabled ==
    /\ subject[1].state \in ButtonState \ {"Disabled"}
    /\ subject[1].visible \in BOOLEAN
    /\ subject[1].was_pressed \in BOOLEAN
UpdateReturnsWhetherStateChanged ==
    (result # <<>> /\ result[1].op = "update") =>
        (result[1].value <=> subject[1].state # result[1].before.state)
C39_ButtonStateInvariant == StateIsNeverDisabled /\ UpdateReturnsWhetherStateChanged

\* C39 witness: an update of a Hovered button whose bounds were changed has
\* returned false with the pointer inside and the mouse button not pressed
C39_Witness ==
    /\ result # <<>> /\ result[1].op = "update"
    /\ ~result[1].value
    /\ result[1].before.visible
    /\ result[1].before.state = "Hovered"
    /\ result[1].is_hovered
    /\ subject[1].bounds \notin ButtonBounds
\* C39 witness for the other outcome: an update has returned true and left
\* the button Pressed
C39_WitnessChanged ==
    /\ result # <<>> /\ result[1].op = "update"
    /\ result[1].value
    /\ subject[1].state = "Pressed"

=============================================================================
